---------------------------- MODULE Spec2Model ----------------------------
(***************************************************************************)
(* thames-tides: the time-scrub controller of TideCanvas (pointer drag,    *)
(* wheel, idle-delay timer, snapback animation) and the static layer cache *)
(* of drawTideCurve, and the data hook useTideData.                        *)
(*                                                                         *)
(* Times are integers in milliseconds.  Pending setTimeout and             *)
(* requestAnimationFrame callbacks are records in the sets timers and      *)
(* rafs.  The browser hands out ids that are never reused, and the code    *)
(* only ever compares an id with snapbackTimerRef.current or               *)
(* snapbackRafRef.current, so an id is modelled by the field ref of the    *)
(* pending callback: ref is TRUE iff the ref cell holds that callback's    *)
(* id.  Cancelling through a ref cell removes the callbacks whose ref is   *)
(* TRUE; a cell holding 0 or the id of a callback that already ran         *)
(* matches no record, and cancelling through it does nothing.              *)
(*                                                                         *)
(* performance.now() - startTime of a snapback is the field elapsed of its *)
(* pending step, and the time left of a timer is remaining; Elapse moves   *)
(* both.  Elapsed time saturates at SNAPBACK_MS, which is what             *)
(* Math.min(.., 1) in step does with it.                                   *)
(***************************************************************************)
EXTENDS Integers, Sequences, FiniteSets, TLC

VARIABLES
    \* ---- TideCanvas: props from useCanvasSize, and the refs ----
    width, height, dpr, mounted,
    timeOffset, isDragging, dragStartX, dragStartOffset,
    pointerRef,
    timers, rafs,
    \* ---- TideCanvas: the animation loop ----
    lastFrameRef, animTimeRef, animRequests, frameClock,
    \* ---- tideCurve.ts module state ----
    themeBlend, predictions, now,
    cachedCanvas, cacheKey, cacheTime, cachedPoints,
    cachedMinLevel, cachedMaxLevel, cachedWindowStart, cachedWindowEnd,
    cachedCurveTop, cachedCurveBottom,
    \* ---- history (written, never read by the program) ----
    lastOp, lastMove, nInteractions, snapbackOwed,
    lastDraw, invalidated, builtFrom, predsSince, beforeInvalidate,
    lastFrame,
    \* ---- useTideData: the station prop, the ref, the state, the load
    \*      callback of the last render, the polling interval, the fetches
    \*      in flight, and history ----
    station, stationRef,
    data, loading, error, stationName, hookPredictions, predictionsReady,
    load, interval, fetches,
    nSwitches, nPolls, settledFor, lastSettle,
    \* ---- one call of padPredictions or interpolatePredictions ----
    call

scrubVars == <<timeOffset, isDragging, dragStartX, dragStartOffset,
               pointerRef, timers, rafs, mounted>>
sizeVars == <<width, height, dpr>>
envVars == <<themeBlend, predictions, now>>
cacheVars == <<cachedCanvas, cacheKey, cacheTime, cachedPoints,
               cachedMinLevel, cachedMaxLevel, cachedWindowStart,
               cachedWindowEnd, cachedCurveTop, cachedCurveBottom>>
scrubHist == <<lastMove, nInteractions, snapbackOwed>>
drawHist == <<lastDraw, invalidated, builtFrom, predsSince, beforeInvalidate>>
loopVars == <<lastFrameRef, animTimeRef, animRequests, frameClock>>
canvasVars == <<scrubVars, sizeVars, envVars, cacheVars, lastOp, scrubHist,
                drawHist, loopVars, lastFrame>>
hookState == <<data, loading, error, stationName, hookPredictions,
               predictionsReady>>
hookVars == <<station, stationRef, hookState, load, interval, fetches,
              nSwitches, nPolls, settledFor, lastSettle>>
programVars == <<canvasVars, hookVars>>
vars == <<programVars, call>>

-----------------------------------------------------------------------------
(* Program constants *)

SNAPBACK_MS == 1200
SNAPBACK_DELAY_MS == 2000
PAST_HOURS == 12
FUTURE_HOURS == 12
TOTAL_WINDOW_MS == (PAST_HOURS + FUTURE_HOURS) * 3600 * 1000
\* const maxOffset = 6 * 3600 * 1000 in handlePointerMove and handleWheel
maxOffset == 6 * 3600 * 1000
\* CURVE_HEIGHT_FRACTION = 0.15, in hundredths
CURVE_HEIGHT_FRACTION == 15
\* HALF_CYCLE = 6.2 * 3600 * 1000
HALF_CYCLE == 22320000
CACHE_TTL == 30000
\* const step = 3 * 60 * 1000 in interpolatePredictions
step == 3 * 60 * 1000
\* animation timestamps are counted in thirds of a millisecond, so that
\* FRAME_INTERVAL = 1000 / 30 ms is a whole number of them
TsPerMs == 3
FRAME_INTERVAL == (1000 * TsPerMs) \div 30

-----------------------------------------------------------------------------
(* Bounds of the model *)

\* pointer-down-in-band and wheel events handled in one behaviour of the
\* scrub controller; changes of the cache's inputs (size, blend,
\* predictions, invalidation) in one behaviour of the cache
MaxInteractions == 2

\* one step of the model's clock: half the snapback duration, so that a
\* snapback is seen at t = 0, 0.5 and 1
ElapseMs == SNAPBACK_MS \div 2

\* the sizes useCanvasSize reports, <<width, height, dpr>>: those of the
\* scrub controller's runs, and those of the cache's
ScrubSizes == {<<1000, 800, 1>>, <<500, 600, 1>>}
CacheSizes == {<<1000, 800, 1>>, <<500, 800, 1>>, <<1000, 600, 1>>, <<1000, 800, 2>>}
DownXs == {150}
MoveXs == {0, 50, 250}
DownYs == {509, 510, 680}
MoveYs == {680}
WheelDeltas == {-100, 100}
WheelDeltasY == {-200, 50}

\* levels are integers in millimetres; the padded level range is kept in
\* hundredths of a millimetre, so that 15 % of a range is an integer
Metre == 1000
PadScale == 100

\* station switches and polling ticks in one behaviour of the data hook
MaxSwitches == 1
MaxPolls == 1

\* animation callbacks in one behaviour, and the time from one callback to
\* the next: a display of 60 Hz, one of 30 Hz, and a late callback
MaxFrames == 4
FrameGaps == {FRAME_INTERVAL \div 2, FRAME_INTERVAL, FRAME_INTERVAL + 20}

\* the wall clock when the page loads, on a whole minute, and the ticks of
\* the clock the cache is observed over
StartTime == 1000 * 60000
TickMs == CACHE_TTL \div 2
MaxTicks == 4
Clock == {StartTime + k * TickMs : k \in 0..MaxTicks}

\* theme blends in hundredths: 0.00 and 0.02 round to the same twentieth,
\* 0.03 to the next
Blends == {0, 2, 3}

\* Date.getTime() of an invalid Date; every comparison with it is false
NaN == -(2 ^ 30)

\* data.currentLevel, the observed level handed to every frame
currentLevel == 1500

\* prediction lists the API delivers
Hours(n) == n * 3600 * 1000
Event(type, time, level) == [type |-> type, time |-> time, level |-> level]
PredsA == <<Event("high", StartTime - Hours(1), 3200),
            Event("low", StartTime - Hours(1) + HALF_CYCLE, 400)>>
PredsB == <<Event("low", StartTime - Hours(2), 600),
            Event("high", StartTime + Hours(4), 3000)>>
PredsC == Append(PredsA, Event("high", StartTime + Hours(12), 3400))
PredsInvalid == <<Event("high", NaN, 3200), Event("low", NaN, 400)>>
\* a tide that does not move: every interpolated level is the same
PredsFlat == <<Event("high", StartTime - Hours(13), 2000),
               Event("low", StartTime + Hours(14), 2000),
               Event("high", StartTime + Hours(20), 2000),
               Event("low", StartTime + Hours(26), 2000)>>
PredictionLists == {<<>>, <<PredsA[1]>>, PredsA, PredsB, PredsC, PredsInvalid}
OwnerLists == {<<PredsA[1]>>, PredsA, PredsC, PredsInvalid, PredsFlat}

\* the arguments padPredictions and interpolatePredictions are called with
\* on their own: lists of 0 to 4 events (ascending, with equal times,
\* descending, of one kind only, a whole number of sampling steps apart or
\* not, with invalid dates) and windows around StartTime
ListPair == <<Event("high", StartTime, 3200),
              Event("low", StartTime + HALF_CYCLE, 100)>>
ListLowHigh == <<Event("low", StartTime, 600),
                 Event("high", StartTime + Hours(6), 3000)>>
ListFour == <<Event("high", StartTime, 3200),
              Event("low", StartTime + HALF_CYCLE, 400),
              Event("high", StartTime + 2 * HALF_CYCLE, 3400),
              Event("low", StartTime + 3 * HALF_CYCLE, 300)>>
ListOffStep == <<Event("low", StartTime, 600),
                 Event("high", StartTime + Hours(6) + 60000, 3000)>>
ListHighs == <<Event("high", StartTime, 3200),
               Event("high", StartTime + Hours(6), 3400)>>
ListDescending == <<Event("high", StartTime + Hours(6), 3200),
                    Event("low", StartTime, 400)>>
ListEqualTimes == <<Event("high", StartTime, 3200),
                    Event("low", StartTime, 400)>>
CallLists ==
    {<<>>, <<ListPair[1]>>, ListPair, ListLowHigh, ListOffStep, ListFour,
     ListHighs, ListDescending, ListEqualTimes, PredsInvalid}
CallWindows ==
    {<<StartTime - Hours(12), StartTime + Hours(12)>>,
     <<StartTime - Hours(5), StartTime + Hours(12)>>,
     <<StartTime, StartTime + HALF_CYCLE>>,
     <<StartTime + Hours(1), StartTime + Hours(2)>>,
     <<StartTime - HALF_CYCLE, StartTime + 2 * HALF_CYCLE>>,
     <<StartTime - Hours(20), StartTime + Hours(30)>>,
     <<StartTime + 60000, StartTime + 120000>>,
     <<StartTime + Hours(3), StartTime + Hours(1)>>}
NoCall == [fn |-> "none", done |-> TRUE]
Calls ==
    {[fn |-> f, preds |-> p, start |-> w[1], end |-> w[2], done |-> FALSE,
      out |-> <<>>] :
        f \in {"padPredictions", "interpolatePredictions"},
        p \in CallLists, w \in CallWindows}

\* the arguments mapRange is called with on its own, <<inMin, inMax, outMin,
\* outMax>>: a window onto the width of the surface (timeToX), the level
\* range of the vertical float, and one onto a band that does not start at
\* 0; and the values mapped, below, in and above each range
MapRanges ==
    {<<StartTime - Hours(12), StartTime + Hours(12), 0, 1000>>,
     <<-2 * Metre, 3500, 0, 48>>,
     <<0, 400, 680, 780>>}
MapValues(r) ==
    {r[1] - (r[2] - r[1]), r[1] - 1, r[1], r[1] + (r[2] - r[1]) \div 4,
     r[1] + (r[2] - r[1]) \div 2, r[2], r[2] + 1, r[2] + 2 * (r[2] - r[1])}
MapCalls ==
    UNION {{[fn |-> "mapRange", value |-> v, inMin |-> r[1], inMax |-> r[2],
             outMin |-> r[3], outMax |-> r[4], done |-> FALSE, out |-> 0] :
                v \in MapValues(r)} : r \in MapRanges}

\* the arguments levelToY is called with on its own: levels in millimetres
\* below, in and above the padded range of a curve between 0.4 m and 3.2 m,
\* kept in PadScale-ths of a millimetre, on a surface 800 high
LevelCalls ==
    {[fn |-> "levelToY", value |-> l, minLevel |-> -2000, maxLevel |-> 362000,
      curveTop |-> 680, curveBottom |-> 780, done |-> FALSE, out |-> 0] :
        l \in {-5000, -20, 400, 1800, 3200, 3620, 9000}}

\* the arguments step is called with on its own: the offset startSnapback
\* captured (2 h, the largest offsets a drag or the wheel can leave, the
\* smallest even ones) and the time since the snapback began, every tenth
\* of a second up to one past its end
StepOffsets == {7200000, maxOffset, -maxOffset, -12960000, 2, -2}
StepCalls ==
    {[fn |-> "step", startOffset |-> o, elapsed |-> 100 * k, done |-> FALSE, out |-> 0] :
        o \in StepOffsets, k \in 0..13}

NoMove == [x |-> 0, offset |-> 0, w |-> 0]

\* history: the handler that ran last, the wheel deltas or the client
\* coordinates it was given, and whether a timer or an animation step was
\* pending when it began
Op(name) == [op |-> name, dx |-> 0, dy |-> 0, hadTimer |-> FALSE, hadRaf |-> FALSE]
OpWith(name, dx, dy, T, R) ==
    [op |-> name, dx |-> dx, dy |-> dy, hadTimer |-> T # {}, hadRaf |-> R # {}]

-----------------------------------------------------------------------------
(* Pure helpers *)

Abs(x) == IF x < 0 THEN -x ELSE x
Min(a, b) == IF a < b THEN a ELSE b
Max(a, b) == IF a > b THEN a ELSE b

RECURSIVE GCD(_, _)
GCD(a, b) == IF b = 0 THEN a ELSE GCD(b, a % b)

\* Math.max(-maxOffset, Math.min(maxOffset, v))
ClampOffset(v) == Max(-maxOffset, Min(maxOffset, v))

\* TOTAL_WINDOW_MS / (width || 1)
PxToMs(w) == TOTAL_WINDOW_MS \div (IF w = 0 THEN 1 ELSE w)

\* height * (1 - CURVE_HEIGHT_FRACTION)
CurveTop(h) == (h * (100 - CURVE_HEIGHT_FRACTION)) \div 100

\* (variant) the second branch without its division by two
easeInOutUnhalved(e) ==
    LET S == SNAPBACK_MS
    IN  IF 2 * e < S
        THEN <<2 * e * e, S * S>>
        ELSE <<S * S - 4 * (S - e) * (S - e), S * S>>

\* easeInOut(t) for t = e / SNAPBACK_MS, as the fraction <<num, den>>:
\*   t < 0.5 ? 2*t*t : 1 - (-2*t + 2)**2 / 2
easeInOut(e) ==
    LET S == SNAPBACK_MS
    IN  IF 2 * e < S
        THEN <<2 * e * e, S * S>>
        ELSE <<S * S - 2 * (S - e) * (S - e), S * S>>

\* startOffset * (1 - easeInOut(t)), t = Math.min(e / SNAPBACK_MS, 1).
\* The fraction is reduced before it is applied; with the inputs of this
\* model the division leaves no remainder (SnapbackExact).
SnapbackValue(startOffset, e) ==
    LET f == easeInOut(Min(e, SNAPBACK_MS))
        n == f[2] - f[1]
        g == GCD(f[2], n)
    IN  (startOffset * (n \div g)) \div (f[2] \div g)


-----------------------------------------------------------------------------
(* Pending callbacks *)

\* cancelAnimationFrame(snapbackRafRef.current)
CancelAnimationFrame(R) == {r \in R : ~r.ref}

\* clearTimeout(snapbackTimerRef.current)
ClearTimeout(T) == {t \in T : ~t.ref}

\* ref.current = <the id of c>: no other pending callback is named by the cell
Retarget(S, c) == {[x EXCEPT !.ref = FALSE] : x \in S} \cup {c}

\* history: the callbacks that were pending when a new interaction began
MarkStale(S) == {[x EXCEPT !.stale = TRUE] : x \in S}

\* (variant) scheduleSnapback sets its timer without clearing the pending one
scheduleSnapbackNoClear(T) ==
    Retarget(T, [remaining |-> SNAPBACK_DELAY_MS, ref |-> TRUE, stale |-> FALSE])

\* scheduleSnapback: clearTimeout, then setTimeout(startSnapback, 2000)
scheduleSnapback(T) ==
    Retarget(ClearTimeout(T),
             [remaining |-> SNAPBACK_DELAY_MS, ref |-> TRUE, stale |-> FALSE])

\* startSnapback, the pending animation steps it leaves
startSnapbackRafs(R, off) ==
    IF Abs(off) < 1
    THEN CancelAnimationFrame(R)
    ELSE Retarget(CancelAnimationFrame(R),
                  [startOffset |-> off, elapsed |-> 0, ref |-> TRUE,
                   stale |-> FALSE])

\* startSnapback, the offset it leaves
startSnapbackOffset(off) == IF Abs(off) < 1 THEN 0 ELSE off

\* step: is this the last step (t = 1)?
StepDone(r) == Min(r.elapsed, SNAPBACK_MS) >= SNAPBACK_MS

\* step, the offset it leaves
stepOffset(r) == IF StepDone(r) THEN 0 ELSE SnapbackValue(r.startOffset, r.elapsed)

\* step, the pending animation steps it leaves
stepRafs(R, r) ==
    IF StepDone(r) THEN R \ {r}
    ELSE Retarget(R \ {r}, [r EXCEPT !.ref = TRUE])

\* (variant) a tap on the top edge of the band is taken to be above it
InBandBelowEdge(y, h) == y > CurveTop(h)

\* handlePointerDown: is the tap inside the curve band?
InBand(y, h) == ~(y < CurveTop(h))

\* handlePointerMove while dragging, before and after the clamp
dragRaw(startOff, startX, x, w) == startOff - (x - startX) * PxToMs(w)
\* (variant) the move is applied to the current offset, not to the anchor's
dragOffsetFromPrevious(startOff, startX, x, w) ==
    ClampOffset(timeOffset - (x - startX) * PxToMs(w))
dragOffset(startOff, startX, x, w) == ClampOffset(dragRaw(startOff, startX, x, w))

\* handleWheel, before and after the clamp: deltaX * pxToMs * 0.5, and
\* deltaY * pxToMs * 0.5 as well when the vertical component dominates
wheelRaw(off, dx, dy, w) ==
    LET a == off + (dx * PxToMs(w)) \div 2
    IN  IF Abs(dx) < Abs(dy) THEN a + (dy * PxToMs(w)) \div 2 ELSE a
\* (variant) the clamp is left out
wheelOffsetNoClamp(off, dx, dy, w) == wheelRaw(off, dx, dy, w)
\* (variant) deltaY is added whether or not it dominates
wheelOffsetAlwaysY(off, dx, dy, w) ==
    ClampOffset(off + (dx * PxToMs(w)) \div 2 + (dy * PxToMs(w)) \div 2)
wheelOffset(off, dx, dy, w) == ClampOffset(wheelRaw(off, dx, dy, w))

\* handleWheel, what it leaves pending
\* (variant) the wheel handler leaves the running animation alone
wheelRafsNoCancel(R) == MarkStale(R)
wheelRafs(R) == CancelAnimationFrame(MarkStale(R))
wheelTimers(T) == scheduleSnapback(ClearTimeout(MarkStale(T)))

\* handlePointerDown inside the band, what it leaves pending
pointerDownRafs(R) == CancelAnimationFrame(MarkStale(R))
pointerDownTimers(T) == ClearTimeout(MarkStale(T))

\* the listener effect's cleanup, what it leaves pending
cleanupRafs(R) == CancelAnimationFrame(R)
\* (variant) the cleanup forgets the timer
cleanupTimersNone(T) == T
cleanupTimers(T) == ClearTimeout(T)

-----------------------------------------------------------------------------
(* The time-scrub controller *)

\* (variant) an input handler drops the cached layer
ScrubFrameDropsLayer ==
    /\ cachedCanvas' = FALSE
    /\ UNCHANGED <<dpr, envVars, cacheKey, cacheTime, cachedPoints,
                   cachedMinLevel, cachedMaxLevel, cachedWindowStart,
                   cachedWindowEnd, cachedCurveTop, cachedCurveBottom,
                   drawHist, call, loopVars, lastFrame, hookVars>>

\* what the handlers of the scrub controller leave alone
ScrubFrame ==
    UNCHANGED <<dpr, envVars, cacheVars, drawHist, call, loopVars, lastFrame,
                hookVars>>

handlePointerDown(x, y) ==
    /\ mounted
    /\ IF InBand(y, height)
       THEN /\ nInteractions < MaxInteractions
            /\ rafs' = pointerDownRafs(rafs)
            /\ timers' = pointerDownTimers(timers)
            /\ isDragging' = TRUE
            /\ dragStartX' = x
            /\ dragStartOffset' = timeOffset
            /\ nInteractions' = nInteractions + 1
            /\ snapbackOwed' = FALSE
            /\ lastMove' = NoMove
            /\ lastOp' = OpWith("pointerdown", x, y, timers, rafs)
            /\ UNCHANGED <<timeOffset, pointerRef>>
       ELSE /\ lastOp' = OpWith("pointerdown-outside", x, y, timers, rafs)
            /\ UNCHANGED <<timeOffset, isDragging, dragStartX, dragStartOffset,
                           pointerRef, timers, rafs, scrubHist>>
    /\ UNCHANGED <<width, height, mounted>>
    /\ ScrubFrame

handlePointerMove(x, y) ==
    /\ mounted
    /\ pointerRef' = [x |-> x, y |-> y, active |-> TRUE]
    /\ IF isDragging
       THEN /\ timeOffset' = dragOffset(dragStartOffset, dragStartX, x, width)
            /\ lastMove' = [x |-> x, offset |-> timeOffset', w |-> width]
            /\ lastOp' = Op("pointermove-drag")
       ELSE /\ lastOp' = Op("none")
            /\ UNCHANGED <<timeOffset, lastMove>>
    /\ UNCHANGED <<isDragging, dragStartX, dragStartOffset, timers, rafs,
                   nInteractions, snapbackOwed, width, height, mounted>>
    /\ ScrubFrame

\* the body shared by handlePointerUp and handlePointerLeave
EndDrag(op) ==
    IF isDragging
    THEN /\ isDragging' = FALSE
         /\ timers' = scheduleSnapback(timers)
         /\ snapbackOwed' = TRUE
         /\ lastOp' = Op(op)
    ELSE /\ lastOp' = Op("none")
         /\ UNCHANGED <<isDragging, timers, snapbackOwed>>

handlePointerUp ==
    /\ mounted
    /\ EndDrag("pointerup")
    /\ UNCHANGED <<timeOffset, dragStartX, dragStartOffset, pointerRef, rafs,
                   lastMove, nInteractions, width, height, mounted>>
    /\ ScrubFrame

handlePointerLeave ==
    /\ mounted
    /\ pointerRef' = [pointerRef EXCEPT !.active = FALSE]
    /\ EndDrag("pointerleave")
    /\ UNCHANGED <<timeOffset, dragStartX, dragStartOffset, rafs,
                   lastMove, nInteractions, width, height, mounted>>
    /\ ScrubFrame

handleWheel(dx, dy) ==
    /\ mounted
    /\ nInteractions < MaxInteractions
    /\ rafs' = wheelRafs(rafs)
    /\ timers' = wheelTimers(timers)
    /\ timeOffset' = wheelOffset(timeOffset, dx, dy, width)
    /\ nInteractions' = nInteractions + 1
    /\ snapbackOwed' = TRUE
    /\ lastOp' = OpWith("wheel", dx, dy, timers, rafs)
    /\ UNCHANGED <<isDragging, dragStartX, dragStartOffset, pointerRef,
                   lastMove, width, height, mounted>>
    /\ ScrubFrame

\* the idle-delay timer fires: startSnapback
TimerFire(t) ==
    /\ t \in timers
    /\ t.remaining = 0
    /\ timers' = timers \ {t}
    /\ rafs' = startSnapbackRafs(rafs, timeOffset)
    /\ timeOffset' = startSnapbackOffset(timeOffset)
    /\ lastOp' = Op(IF Abs(timeOffset) < 1 THEN "snapback-zero" ELSE "snapback-start")
    /\ UNCHANGED <<isDragging, dragStartX, dragStartOffset, pointerRef,
                   scrubHist, width, height, mounted>>
    /\ ScrubFrame

\* an animation frame runs step
RafStep(r) ==
    /\ r \in rafs
    /\ timeOffset' = stepOffset(r)
    /\ rafs' = stepRafs(rafs, r)
    /\ lastOp' = Op(IF StepDone(r) THEN "step-done" ELSE "step")
    /\ UNCHANGED <<isDragging, dragStartX, dragStartOffset, pointerRef,
                   timers, scrubHist, width, height, mounted>>
    /\ ScrubFrame

\* time passes
Elapse ==
    /\ timers' = {[t EXCEPT !.remaining = Max(0, t.remaining - ElapseMs)] : t \in timers}
    /\ rafs' = {[r EXCEPT !.elapsed = Min(SNAPBACK_MS, r.elapsed + ElapseMs)] : r \in rafs}
    /\ lastOp' = Op("none")
    /\ UNCHANGED <<timeOffset, isDragging, dragStartX, dragStartOffset,
                   pointerRef, scrubHist, width, height, mounted>>
    /\ ScrubFrame

\* useCanvasSize reports a new size: the handlers are re-created, so the
\* listener effect runs its cleanup and registers them again
\* (handlePointerMove and handleWheel depend on width, handlePointerDown on
\* height, none on dpr)
useCanvasSize(w, h, d) ==
    /\ mounted
    /\ <<w, h, d>> # <<width, height, dpr>>
    /\ width' = w
    /\ height' = h
    /\ dpr' = d
    /\ IF <<w, h>> # <<width, height>>
       THEN /\ rafs' = cleanupRafs(rafs)
            /\ timers' = cleanupTimers(timers)
       ELSE UNCHANGED <<rafs, timers>>
    /\ lastOp' = Op("none")
    /\ UNCHANGED <<timeOffset, isDragging, dragStartX, dragStartOffset,
                   pointerRef, mounted>>
    /\ UNCHANGED <<envVars, cacheVars, drawHist, call, loopVars, lastFrame,
                   hookVars>>

Resize(w, h, d) ==
    /\ useCanvasSize(w, h, d)
    /\ UNCHANGED scrubHist

\* the component unmounts: the listener effect's cleanup, and that of the
\* animation loop's effect, cancelAnimationFrame(animId)
Teardown ==
    /\ mounted
    /\ mounted' = FALSE
    /\ rafs' = cleanupRafs(rafs)
    /\ timers' = cleanupTimers(timers)
    /\ animRequests' = 0
    /\ lastOp' = OpWith("teardown", 0, 0, timers, rafs)
    /\ UNCHANGED <<timeOffset, isDragging, dragStartX, dragStartOffset,
                   pointerRef, scrubHist, width, height>>
    /\ UNCHANGED <<dpr, envVars, cacheVars, drawHist, call, lastFrameRef,
                   animTimeRef, frameClock, lastFrame, hookVars>>

-----------------------------------------------------------------------------
(* The static layer cache of tideCurve.ts *)

NumLt(a, b) == a # NaN /\ b # NaN /\ a < b
NumGt(a, b) == a # NaN /\ b # NaN /\ a > b
NumLe(a, b) == a # NaN /\ b # NaN /\ a <= b
NumGe(a, b) == a # NaN /\ b # NaN /\ a >= b
NumAdd(a, b) == IF a = NaN \/ b = NaN THEN NaN ELSE a + b

\* n / d rounded to the nearest integer, d > 0
RoundDiv(n, d) == (2 * n + d) \div (2 * d)

\* Math.round(blend * 20), blend in hundredths: floor(b / 5 + 1 / 2)
RoundBlend20(b) == (2 * b + 5) \div 10

sameType(type) == type
oppositeType(type) == IF type = "high" THEN "low" ELSE "high"

neighbourLevel(padded, type, fallback) == fallback.level

\* padded.find(e => e.type === type): the first event of that type, or
\* the fallback's level
findLevel(padded, type, fallback) ==
    LET idx == {i \in 1..Len(padded) : padded[i].type = type}
    IN IF idx = {} THEN fallback.level
       ELSE padded[CHOOSE i \in idx : \A j \in idx : i <= j].level

firstLevel(padded, type, fallback) == findLevel(padded, type, fallback)

\* [...padded].reverse().find(e => e.type === type)
findLastLevel(padded, type, fallback) ==
    LET idx == {i \in 1..Len(padded) : padded[i].type = type}
    IN IF idx = {} THEN fallback.level
       ELSE padded[CHOOSE i \in idx : \A j \in idx : i >= j].level

padStartOnce(padded, start) ==
    IF Len(padded) > 0 /\ NumGt(padded[1].time, start)
    THEN LET first == padded[1]
             opp == oppositeType(first.type)
         IN <<[type |-> opp,
               time |-> NumAdd(first.time, -HALF_CYCLE),
               level |-> findLevel(padded, opp, first)]>> \o padded
    ELSE padded

RECURSIVE padStartByHalf(_, _)
padStartByHalf(padded, start) ==
    IF Len(padded) > 0 /\ NumGt(padded[1].time, start)
    THEN LET first == padded[1]
             opp == oppositeType(first.type)
         IN padStartByHalf(<<[type |-> opp,
                              time |-> NumAdd(first.time, -(HALF_CYCLE \div 2)),
                              level |-> findLevel(padded, opp, first)]>> \o padded,
                           start)
    ELSE padded

RECURSIVE padStart(_, _)
padStart(padded, start) ==
    IF Len(padded) > 0 /\ NumGt(padded[1].time, start)
    THEN LET first == padded[1]
             opp == oppositeType(first.type)
         IN padStart(<<[type |-> opp,
                        time |-> NumAdd(first.time, -HALF_CYCLE),
                        level |-> findLevel(padded, opp, first)]>> \o padded,
                     start)
    ELSE padded

RECURSIVE padEndByHalf(_, _)
padEndByHalf(padded, end) ==
    IF Len(padded) > 0 /\ NumLt(padded[Len(padded)].time, end)
    THEN LET last == padded[Len(padded)]
             opp == oppositeType(last.type)
         IN padEndByHalf(Append(padded,
                                [type |-> opp,
                                 time |-> NumAdd(last.time, HALF_CYCLE \div 2),
                                 level |-> findLastLevel(padded, opp, last)]),
                         end)
    ELSE padded

RECURSIVE padEnd(_, _)
padEnd(padded, end) ==
    IF Len(padded) > 0 /\ NumLt(padded[Len(padded)].time, end)
    THEN LET last == padded[Len(padded)]
             opp == oppositeType(last.type)
         IN padEnd(Append(padded,
                          [type |-> opp,
                           time |-> NumAdd(last.time, HALF_CYCLE),
                           level |-> findLastLevel(padded, opp, last)]),
                   end)
    ELSE padded

\* (variant) the series is returned as it came
padPredictionsUnpadded(preds, start, end) == preds

padAnyLength(preds, start, end) == padEnd(padStart(preds, start), end)

padPredictions(preds, start, end) ==
    IF Len(preds) < 2 THEN preds ELSE padEnd(padStart(preds, start), end)

\* (1 - Math.cos(frac * Math.PI)) / 2 for frac = p / q, 0 <= p < q, as a
\* fraction <<num, den>>.  The cosine is Bhaskara's rational approximation
\* cos(x * PI) ~ (1 - 4 x^2) / (1 + x^2) on |x| <= 1/2, mirrored on the
\* second half; it is exact at 0, 1/2 and 1, increasing, and within 0.002
\* of the cosine.
cosEase(p, q) ==
    LET g == GCD(q, p)
        a == p \div g
        b == q \div g
        c == b - a
    IN IF 2 * a <= b
       THEN <<5 * a * a, 2 * (b * b + a * a)>>
       ELSE <<2 * (b * b + c * c) - 5 * c * c, 2 * (b * b + c * c)>>

\* a.level + (b.level - a.level) * cos, to the nearest level unit
easedLevel(la, lb, p, q) ==
    LET e == cosEase(p, q) IN la + RoundDiv((lb - la) * e[1], e[2])

pairPointsEveryOther(a, b, start, end) ==
    LET tA == a.time
        tB == b.time
        n == IF NumLt(tA, tB) THEN (tB - tA - 1) \div (2 * step) + 1 ELSE 0
        all == [k \in 1..n |-> (k - 1) * 2 * step]
        kept == SelectSeq(all, LAMBDA d : ~(tA + d < start \/ tA + d > end))
    IN [i \in 1..Len(kept) |->
           [time |-> tA + kept[i],
            level |-> easedLevel(a.level, b.level, kept[i], tB - tA)]]

pairPointsUnclipped(a, b, start, end) ==
    LET tA == a.time
        tB == b.time
        n == IF NumLt(tA, tB) THEN (tB - tA - 1) \div step + 1 ELSE 0
    IN [k \in 1..n |->
           [time |-> tA + (k - 1) * step,
            level |-> easedLevel(a.level, b.level, (k - 1) * step, tB - tA)]]

pairPointsThroughEnd(a, b, start, end) ==
    LET tA == a.time
        tB == b.time
        n == IF NumLt(tA, tB) THEN (tB - tA) \div step + 1 ELSE 0
        all == [k \in 1..n |-> (k - 1) * step]
        kept == SelectSeq(all, LAMBDA d : ~(tA + d < start \/ tA + d > end))
    IN [i \in 1..Len(kept) |->
           [time |-> tA + kept[i],
            level |-> easedLevel(a.level, b.level, kept[i], tB - tA)]]

\* the inner loop of interpolatePredictions for the pair a, b: the samples
\* t = tA, tA + step, ... < tB that lie in [start, end]
pairPoints(a, b, start, end) ==
    LET tA == a.time
        tB == b.time
        n == IF NumLt(tA, tB) THEN (tB - tA - 1) \div step + 1 ELSE 0
        all == [k \in 1..n |-> (k - 1) * step]
        kept == SelectSeq(all, LAMBDA d : ~(tA + d < start \/ tA + d > end))
    IN [i \in 1..Len(kept) |->
           [time |-> tA + kept[i],
            level |-> easedLevel(a.level, b.level, kept[i], tB - tA)]]

RECURSIVE pairsFrom(_, _, _, _)
pairsFrom(padded, i, start, end) ==
    IF i > Len(padded) - 1 THEN <<>>
    ELSE pairPoints(padded[i], padded[i + 1], start, end)
             \o pairsFrom(padded, i + 1, start, end)

interpolateWithoutLast(preds, start, end) ==
    LET padded == padPredictions(preds, start, end)
    IN IF Len(padded) < 2 THEN <<>> ELSE pairsFrom(padded, 1, start, end)

interpolatePredictions(preds, start, end) ==
    LET padded == padPredictions(preds, start, end)
    IN IF Len(padded) < 2 THEN <<>>
       ELSE LET last == padded[Len(padded)]
                points == pairsFrom(padded, 1, start, end)
            IN IF NumGe(last.time, start) /\ NumLe(last.time, end)
               THEN Append(points, [time |-> last.time, level |-> last.level])
               ELSE points

\* the key string is the six numbers, printed and joined by "|"; two keys
\* are equal iff the six numbers are
buildCacheKeyExactBlend(w, h, d, blend, predCount, nowMinute) ==
    <<w, h, d, blend, predCount, nowMinute>>
buildCacheKey(w, h, d, blend, predCount, nowMinute) ==
    <<w, h, d, RoundBlend20(blend), predCount, nowMinute>>

\* the least and the greatest level of points[lo..hi], by halving
RECURSIVE seqMin(_, _, _)
seqMin(points, lo, hi) ==
    IF lo = hi THEN points[lo].level
    ELSE LET mid == (lo + hi) \div 2
         IN Min(seqMin(points, lo, mid), seqMin(points, mid + 1, hi))

RECURSIVE seqMax(_, _, _)
seqMax(points, lo, hi) ==
    IF lo = hi THEN points[lo].level
    ELSE LET mid == (lo + hi) \div 2
         IN Max(seqMax(points, lo, mid), seqMax(points, mid + 1, hi))

\* (variant) the padding without its fallback
levelPaddingOfRange(minLevel, maxLevel) ==
    (maxLevel - minLevel) * ((15 * PadScale) \div 100)

\* (maxLevel - minLevel) * 0.15 || 0.5, in PadScale-ths of the level unit
levelPadding(minLevel, maxLevel) ==
    IF maxLevel = minLevel THEN (Metre \div 2) * PadScale
    ELSE (maxLevel - minLevel) * ((15 * PadScale) \div 100)

\* the part of renderStaticLayer that depends on the predictions and the
\* clock only: the points, and the padded level range when there are at
\* least two of them
curveOf(preds, t) ==
    LET windowStart == t - PAST_HOURS * 3600 * 1000
        windowEnd == t + FUTURE_HOURS * 3600 * 1000
        allPoints == interpolatePredictions(preds, windowStart, windowEnd)
    IN IF Len(allPoints) < 2
       THEN [allPoints |-> allPoints, minLevel |-> 0, maxLevel |-> 0]
       ELSE LET minLevel == seqMin(allPoints, 1, Len(allPoints))
                maxLevel == seqMax(allPoints, 1, Len(allPoints))
                pad == levelPadding(minLevel, maxLevel)
            IN [allPoints |-> allPoints,
                minLevel |-> minLevel * PadScale - pad,
                maxLevel |-> maxLevel * PadScale + pad]

\* curveOf on the predictions and the clock values of the model, computed
\* once
curves ==
    [preds \in PredictionLists \cup OwnerLists, t \in Clock |-> curveOf(preds, t)]

\* (variant) a build with fewer than two points keeps the canvas it found
renderStaticLayerKeepsCanvas ==
    LET curve == curves[predictions, now]
    IN IF Len(curve.allPoints) < 2
       THEN UNCHANGED <<cachedCanvas, cacheTime, cachedPoints, cachedMinLevel,
                        cachedMaxLevel, cachedWindowStart, cachedWindowEnd,
                        cachedCurveTop, cachedCurveBottom>>
       ELSE /\ cachedPoints' = curve.allPoints
            /\ cachedMinLevel' = curve.minLevel
            /\ cachedMaxLevel' = curve.maxLevel
            /\ cachedWindowStart' = now - PAST_HOURS * 3600 * 1000
            /\ cachedWindowEnd' = now + FUTURE_HOURS * 3600 * 1000
            /\ cachedCurveTop' = CurveTop(height)
            /\ cachedCurveBottom' = height - 20
            /\ cachedCanvas' = TRUE
            /\ cacheTime' = now

\* what renderStaticLayer leaves in the module's variables; the pixels it
\* paints are not modelled.  Its own Date.now() is taken to return what
\* drawTideCurve's did.
renderStaticLayer ==
    LET windowStart == now - PAST_HOURS * 3600 * 1000
        windowEnd == now + FUTURE_HOURS * 3600 * 1000
        curve == curves[predictions, now]
    IN IF Len(curve.allPoints) < 2
       THEN /\ cachedCanvas' = FALSE
            /\ UNCHANGED <<cacheTime, cachedPoints, cachedMinLevel,
                           cachedMaxLevel, cachedWindowStart, cachedWindowEnd,
                           cachedCurveTop, cachedCurveBottom>>
       ELSE /\ cachedPoints' = curve.allPoints
            /\ cachedMinLevel' = curve.minLevel
            /\ cachedMaxLevel' = curve.maxLevel
            /\ cachedWindowStart' = windowStart
            /\ cachedWindowEnd' = windowEnd
            /\ cachedCurveTop' = CurveTop(height)
            /\ cachedCurveBottom' = height - 20
            /\ cachedCanvas' = TRUE
            /\ cacheTime' = now

\* Math.min(Math.max(value, min), max)
clampNone(value, min, max) == value
clamp(value, min, max) == Min(Max(value, min), max)

\* a + (b - a) * t for t = num / den, to the nearest integer
lerp(a, b, num, den) == a + RoundDiv((b - a) * num, den)

\* mapRange: t = clamp((value - inMin) / (inMax - inMin), 0, 1), kept as
\* the fraction of value - inMin over inMax - inMin in lowest terms, and
\* lerp(outMin, outMax, t).  inMin < inMax at every call.
mapRange(value, inMin, inMax, outMin, outMax) ==
    LET den == inMax - inMin
        num == clamp(value - inMin, 0 * den, 1 * den)
        g == GCD(den, Abs(num))
    IN lerp(outMin, outMax, num \div g, den \div g)

\* timeToX and levelToY of drawTideCurve; l is in millimetres, the cached
\* range in PadScale-ths of one
timeToX(t, windowStart, windowEnd, w) == mapRange(t, windowStart, windowEnd, 0, w)
levelToY(l, minLevel, maxLevel, top, bottom) ==
    bottom - mapRange(l * PadScale, minLevel, maxLevel, 0, bottom - top)

\* const now = Date.now() of drawTideCurve: the time the live marker is
\* drawn at and its level is looked up for; state.timeOffset is not read
markerTime(wallClock, offset) == wallClock

\* the level of the live marker: the loop over cachedPoints that looks for
\* the first pair around t, and currentLevel when there is none
curveLevel(points, t, level) ==
    LET idx == {i \in 1..(Len(points) - 1) :
                   points[i].time <= t /\ points[i + 1].time >= t}
    IN IF idx = {} THEN level
       ELSE LET i == CHOOSE j \in idx : \A k \in idx : j <= k
                den == points[i + 1].time - points[i].time
            IN IF den = 0 THEN NaN
               ELSE points[i].level
                        + RoundDiv((points[i + 1].level - points[i].level)
                                       * (t - points[i].time), den)

\* the test of drawTideCurve that decides whether the layer is rebuilt
noEntryIgnored(canvas, key, stored, age) == key # stored \/ age > CACHE_TTL
anyAgeExpires(canvas, key, stored, age) == ~canvas \/ key # stored \/ age > 0
ttlIgnored(canvas, key, stored, age) == ~canvas \/ key # stored
needsRebuild(canvas, key, stored, age) ==
    ~canvas \/ key # stored \/ age > CACHE_TTL

\* what the property side reads of a draw call: the six key components as
\* the specification lists them
KeyComponents ==
    <<width, height, dpr, RoundBlend20(themeBlend), Len(predictions),
      now \div 60000>>

NoDraw == [none |-> TRUE, short |-> TRUE, rebuilt |-> FALSE,
           afterInvalidate |-> FALSE]

\* the values left by the last successful build, which the live marker reads
Geometry ==
    <<cachedPoints, cachedMinLevel, cachedMaxLevel, cachedWindowStart,
      cachedWindowEnd, cachedCurveTop, cachedCurveBottom>>

\* history: what the last successful build read
BuildInputs == [predictions |-> predictions, now |-> now, height |-> height]
NoBuild == [predictions |-> <<>>, now |-> 0, height |-> 0]

\* history: whether an entry was there when invalidateTideCurveCache() ran,
\* and the inputs at that time
InvalidateRecord ==
    [none |-> FALSE,
     entry |-> cachedCanvas,
     inputs |-> <<sizeVars, envVars>>]
NoInvalidate == [none |-> TRUE, entry |-> FALSE]

\* history: what a draw call saw and did.  layerAge is the age, at the
\* call, of the entry it leaves; failedAt the time of the call when its
\* build left no entry, and sinceFailed the time since such a call when it
\* was the previous one; settled says that the predictions had been in
\* place for more than CACHE_TTL, predsFrom since when they were;
\* geometryKept that the call left the cached geometry as it found it,
\* cacheKept that it left every variable of the cache as it found it.
drawRecord(rebuilt) ==
    [none |-> FALSE,
     comps |-> KeyComponents,
     short |-> Len(predictions) < 2,
     rebuilt |-> rebuilt,
     hadEntry |-> cachedCanvas,
     keyDiff |-> KeyComponents # cacheKey,
     expired |-> now - cacheTime > CACHE_TTL,
     prev |-> IF lastDraw.none THEN "none"
              ELSE IF lastDraw.short THEN "short"
              ELSE "full",
     changed |-> IF lastDraw.none THEN {}
                 ELSE {i \in 1..6 : lastDraw.comps[i] # KeyComponents[i]},
     blend |-> themeBlend,
     blendMoved |-> ~lastDraw.none /\ lastDraw.blend # themeBlend,
     afterInvalidate |-> invalidated,
     layerAge |-> IF cachedCanvas' THEN now - cacheTime' ELSE 0,
     failedAt |-> IF rebuilt /\ ~cachedCanvas' THEN now ELSE 0,
     sinceFailed |-> IF lastDraw.none \/ lastDraw.short THEN 0
                     ELSE IF lastDraw.failedAt = 0 THEN 0
                     ELSE now - lastDraw.failedAt,
     stalePreds |-> builtFrom.predictions # predictions,
     settled |-> now - predsSince > CACHE_TTL,
     predsFrom |-> predsSince,
     offset |-> timeOffset,
     geometryKept |-> Geometry' = Geometry,
     cacheKept |-> cacheVars' = cacheVars,
     sameAsBuilt |-> builtFrom = BuildInputs,
     immediate |-> ~beforeInvalidate.none
                   /\ beforeInvalidate.inputs = <<sizeVars, envVars>>]

CacheFrame ==
    UNCHANGED <<scrubVars, lastOp, lastMove, snapbackOwed, call, loopVars,
                lastFrame, hookVars>>

\* one more change of the cache's inputs
Change ==
    /\ nInteractions < MaxInteractions
    /\ nInteractions' = nInteractions + 1

\* the surface is resized, or moves to a display of another pixel ratio
ResizeSurface(w, h, d) ==
    /\ Change
    /\ useCanvasSize(w, h, d)
    /\ UNCHANGED <<lastMove, snapbackOwed>>

\* renderFrame(ctx, state): of its layers the tide curve, drawTideCurve up
\* to the point where the cached layer is blitted
renderFrame ==
    /\ IF Len(predictions) < 2
       THEN /\ UNCHANGED cacheVars
            /\ lastDraw' = drawRecord(FALSE)
       ELSE LET key == buildCacheKey(width, height, dpr, themeBlend,
                                     Len(predictions), now \div 60000)
            IN IF needsRebuild(cachedCanvas, key, cacheKey, now - cacheTime)
               THEN /\ cacheKey' = key
                    /\ renderStaticLayer
                    /\ lastDraw' = drawRecord(TRUE)
               ELSE /\ UNCHANGED cacheVars
                    /\ lastDraw' = drawRecord(FALSE)
    /\ invalidated' = (invalidated /\ Len(predictions) < 2)
    /\ builtFrom' = IF cachedCanvas' /\ cacheTime' = now /\ lastDraw'.rebuilt
                    THEN BuildInputs ELSE builtFrom
    /\ UNCHANGED <<predsSince, beforeInvalidate>>

\* one rendered frame of the animation loop, seen from tideCurve.ts: a call
\* of drawTideCurve
drawTideCurve ==
    /\ mounted
    /\ renderFrame
    /\ UNCHANGED <<sizeVars, envVars, nInteractions>>
    /\ CacheFrame

\* history: what an animation callback saw and did.  n counts the
\* callbacks, renderedAt is the timestamp of the last rendered frame (0:
\* none yet), since the time from that frame, or from the first callback, to
\* this callback; untouched says that the callback left the cache and the
\* draw history as they were.
NoFrame == [n |-> 0, ts |-> 0, rendered |-> FALSE, renderedAt |-> 0,
            hadRendered |-> FALSE, since |-> 0, first |-> 0, requests |-> 1,
            untouched |-> TRUE]
frameRecord(timestamp, rendered) ==
    [n |-> lastFrame.n + 1,
     ts |-> timestamp,
     rendered |-> rendered,
     renderedAt |-> IF rendered THEN timestamp ELSE lastFrame.renderedAt,
     hadRendered |-> lastFrame.renderedAt # 0,
     since |-> IF lastFrame.renderedAt # 0 THEN timestamp - lastFrame.renderedAt
               ELSE IF lastFrame.n = 0 THEN 0
               ELSE timestamp - lastFrame.first,
     first |-> IF lastFrame.n = 0 THEN timestamp ELSE lastFrame.first,
     requests |-> animRequests',
     untouched |-> <<cacheVars, drawHist>>' = <<cacheVars, drawHist>>]

\* the callbacks requested when animate returns: the one that ran is gone,
\* and requestAnimationFrame(animate) asks for the next
rearmNone(requests) == requests - 1
rearm(requests) == (requests - 1) + 1

\* animate(timestamp): one callback of the animation loop, gap after the
\* one before it
animate(gap) ==
    /\ mounted
    /\ animRequests > 0
    /\ lastFrame.n < MaxFrames
    /\ frameClock' = frameClock + gap
    /\ LET timestamp == frameClock + gap
           last == IF lastFrameRef = 0 THEN timestamp ELSE lastFrameRef
           elapsed == timestamp - last
       IN IF elapsed < FRAME_INTERVAL
          THEN /\ lastFrameRef' = last
               /\ animRequests' = rearm(animRequests)
               /\ UNCHANGED <<animTimeRef, cacheVars, drawHist>>
               /\ lastFrame' = frameRecord(timestamp, FALSE)
          ELSE /\ lastFrameRef' = timestamp
               /\ animTimeRef' = animTimeRef + elapsed
               /\ renderFrame
               /\ animRequests' = rearm(animRequests)
               /\ lastFrame' = frameRecord(timestamp, TRUE)
    /\ UNCHANGED <<scrubVars, sizeVars, envVars, lastOp, scrubHist, call,
                   hookVars>>

\* invalidateTideCurveCache(), called by TideCanvas when stationId changes:
\* the entry is dropped
invalidateTideCurveCache ==
    /\ mounted
    /\ Change
    /\ cachedCanvas' = FALSE
    /\ UNCHANGED <<cacheKey, cacheTime, cachedPoints, cachedMinLevel,
                   cachedMaxLevel, cachedWindowStart, cachedWindowEnd,
                   cachedCurveTop, cachedCurveBottom>>
    /\ invalidated' = TRUE
    /\ beforeInvalidate' = InvalidateRecord
    /\ UNCHANGED <<sizeVars, envVars, lastDraw, builtFrom, predsSince>>
    /\ CacheFrame

\* the theme blend moves (day / night transition)
SetBlend(b) ==
    /\ mounted
    /\ Change
    /\ b # themeBlend
    /\ themeBlend' = b
    /\ UNCHANGED <<predictions, now, sizeVars, cacheVars, drawHist>>
    /\ CacheFrame

\* new predictions arrive from the API
SetPredictions(p) ==
    /\ mounted
    /\ Change
    /\ p # predictions
    /\ predictions' = p
    /\ predsSince' = now
    /\ UNCHANGED <<themeBlend, now, sizeVars, cacheVars, lastDraw,
                   invalidated, builtFrom, beforeInvalidate>>
    /\ CacheFrame

\* the wall clock advances
Tick ==
    /\ now < StartTime + MaxTicks * TickMs
    /\ now' = now + TickMs
    /\ UNCHANGED <<themeBlend, predictions, sizeVars, cacheVars, drawHist,
                   nInteractions>>
    /\ CacheFrame


-----------------------------------------------------------------------------
(* The data hook useTideData *)

\* the stations of the selector, by station.id; each has its own
\* eaStation and admiraltyStation, so a fetch is for one station
Stations == {"A", "B"}

\* station.name of the station list, and the label fetchStationName returns
ListedName(s) == [station |-> s, from |-> "list"]
FetchedName(s) == [station |-> s, from |-> "api"]

\* the predictions state: [] ("none"), or the events fetched for a station
NoPredictions == "none"

\* data: null, or the TideData load published; readings and predictions are
\* named by the station they were fetched for
NoData ==
    [readings |-> "none", predictions |-> "none",
     stationName |-> [station |-> "none", from |-> "none"]]

NoInterval == [none |-> TRUE]
NoSettle == [none |-> TRUE]

\* (variant) a response is never taken to be stale
isCurrentAlways(ref, id) == TRUE

\* stationRef.current === station.id, station being that of the closure
isCurrent(ref, id) == ref = id

\* load = useCallback(..., [station.id, station.eaStation, stationName,
\* predictions]): what the callback of a render closes over
loadOf(s, p, n) == [none |-> FALSE, station |-> s, predictions |-> p, stationName |-> n]

\* fetchTodayReadings(station.eaStation) of load(), in flight; afterSettle
\* (history) says whether a predictions fetch for the selected station had
\* settled, since it was selected, when load() was called
readingsFetch(l, after) ==
    [kind |-> "readings", station |-> l.station, predictions |-> l.predictions,
     stationName |-> l.stationName, afterSettle |-> after]

\* fetchTidalPredictions and fetchStationName of the effects, in flight.
\* The hook tells two fetches apart by the station of their closure only,
\* so two fetches of one kind for one station are one element of fetches.
effectFetch(kind, s) ==
    [kind |-> kind, station |-> s, predictions |-> "none",
     stationName |-> ListedName(s), afterSettle |-> FALSE]

\* the polling effect, deps [load, predictionsReady], after a render in
\* which the deps changed or did not: its cleanup clears the interval, and
\* when predictionsReady it calls load() and sets the interval anew
pollingInterval(changed, ready, l, old) ==
    IF ~changed THEN old
    ELSE IF ready THEN l ELSE NoInterval
pollingFetches(changed, ready, l, F, after) ==
    IF changed /\ ready THEN F \cup {readingsFetch(l, after)} ELSE F

HookFrame == UNCHANGED <<canvasVars, call>>

\* the user selects another station: App renders useTideData(s) with the
\* state of the previous render, the effects of that render run in order
\* (reset, predictions, station name, polling), and the state they set is
\* rendered
selectStation(s) ==
    /\ s # station
    /\ nSwitches < MaxSwitches
    /\ nSwitches' = nSwitches + 1
    /\ station' = s
    /\ LET \* the render with the new prop and the old state
           load1 == loadOf(s, hookPredictions, stationName)
           \* the polling effect of that render: load changed
           fetches1 ==
               pollingFetches(TRUE, predictionsReady, load1,
                              fetches \cup {effectFetch("predictions", s),
                                            effectFetch("name", s)},
                              FALSE)
           interval1 == pollingInterval(TRUE, predictionsReady, load1, interval)
           \* the render with the state the reset effect set
           load2 == loadOf(s, NoPredictions, ListedName(s))
           changed2 == load2 # load1 \/ predictionsReady
       IN  /\ stationRef' = s
           /\ data' = NoData
           /\ loading' = TRUE
           /\ error' = "null"
           /\ stationName' = ListedName(s)
           /\ hookPredictions' = NoPredictions
           /\ predictionsReady' = FALSE
           /\ load' = load2
           /\ fetches' = pollingFetches(changed2, FALSE, load2, fetches1, FALSE)
           /\ interval' = pollingInterval(changed2, FALSE, load2, interval1)
    /\ settledFor' = "none"
    /\ UNCHANGED <<nPolls, lastSettle>>
    /\ HookFrame

\* history: the response that settled last
settleRecord(f) ==
    [none |-> FALSE, kind |-> f.kind, stale |-> f.station # station,
     kept |-> hookState' = hookState]

\* fetchTidalPredictions settles, with events (ok) or with an error:
\* .then, .catch and .finally of the predictions effect, and the render
\* that follows
predictionsSettle(f, ok) ==
    /\ f \in fetches /\ f.kind = "predictions"
    /\ UNCHANGED <<station, stationRef, data, loading, error, stationName,
                   nSwitches, nPolls>>
    /\ LET cur == isCurrent(stationRef, f.station)
           preds == IF ok /\ cur THEN f.station ELSE hookPredictions
           ready == IF cur THEN TRUE ELSE predictionsReady
           l == IF ok /\ cur THEN loadOf(station, preds, stationName) ELSE load
           changed == (ok /\ cur) \/ ready # predictionsReady
           after == IF cur THEN f.station = station ELSE settledFor = station
       IN  /\ hookPredictions' = preds
           /\ predictionsReady' = ready
           /\ load' = l
           /\ fetches' = pollingFetches(changed, ready, l, fetches \ {f}, after)
           /\ interval' = pollingInterval(changed, ready, l, interval)
           /\ settledFor' = IF cur THEN f.station ELSE settledFor
           /\ lastSettle' = settleRecord(f)
    /\ HookFrame

\* fetchStationName settles, with a label (ok) or with an error
nameSettle(f, ok) ==
    /\ f \in fetches /\ f.kind = "name"
    /\ UNCHANGED <<station, stationRef, data, loading, error, hookPredictions,
                   predictionsReady, nSwitches, nPolls, settledFor>>
    /\ LET cur == isCurrent(stationRef, f.station)
           name == IF ok /\ cur THEN FetchedName(f.station) ELSE stationName
           changed == name # stationName
           l == IF changed THEN loadOf(station, hookPredictions, name) ELSE load
       IN  /\ stationName' = name
           /\ load' = l
           /\ fetches' = pollingFetches(changed, predictionsReady, l,
                                        fetches \ {f}, settledFor = station)
           /\ interval' = pollingInterval(changed, predictionsReady, l, interval)
           /\ lastSettle' = settleRecord(f)
    /\ HookFrame

\* fetchTodayReadings of a load() settles, with readings, with none, or
\* with an error: the rest of load
readingsSettle(f, outcome) ==
    /\ f \in fetches /\ f.kind = "readings"
    /\ UNCHANGED <<station, stationRef, stationName, hookPredictions,
                   predictionsReady, load, interval, nSwitches, nPolls,
                   settledFor>>
    /\ fetches' = fetches \ {f}
    /\ LET cur == isCurrent(stationRef, f.station)
       IN  /\ data' = IF cur /\ outcome = "readings"
                      THEN [readings |-> f.station,
                            predictions |-> f.predictions,
                            stationName |-> f.stationName]
                      ELSE data
           /\ error' = IF ~cur THEN error
                       ELSE IF outcome = "readings" THEN "null"
                       ELSE IF outcome = "empty" THEN "No readings available"
                       ELSE "Failed to fetch data"
           /\ loading' = IF cur THEN FALSE ELSE loading
           /\ lastSettle' = settleRecord(f)
    /\ HookFrame

\* the polling interval fires: the load it was set with runs again
intervalTick ==
    /\ interval # NoInterval
    /\ nPolls < MaxPolls
    /\ nPolls' = nPolls + 1
    /\ fetches' = fetches \cup {readingsFetch(interval, settledFor = station)}
    /\ UNCHANGED <<station, stationRef, hookState, load, interval, nSwitches,
                   settledFor, lastSettle>>
    /\ HookFrame

\* the first render of useTideData(station) and its effects: the state is
\* the initial one, the predictions and the station name are being fetched,
\* and the polling effect returned at once
InitHook ==
    /\ station = "A" /\ stationRef = "A"
    /\ data = NoData /\ loading = TRUE /\ error = "null"
    /\ stationName = ListedName("A")
    /\ hookPredictions = NoPredictions /\ predictionsReady = FALSE
    /\ load = loadOf("A", NoPredictions, ListedName("A"))
    /\ interval = NoInterval
    /\ fetches = {effectFetch("predictions", "A"), effectFetch("name", "A")}
    /\ nSwitches = 0 /\ nPolls = 0
    /\ settledFor = "none" /\ lastSettle = NoSettle

-----------------------------------------------------------------------------

\* the state after construction of everything but call
InitProgram ==
    /\ width = 1000 /\ height = 800 /\ dpr = 1 /\ mounted = TRUE
    /\ timeOffset = 0 /\ isDragging = FALSE
    /\ dragStartX = 0 /\ dragStartOffset = 0
    /\ pointerRef = [x |-> 0, y |-> 0, active |-> FALSE]
    /\ timers = {} /\ rafs = {}
    /\ themeBlend = 0 /\ predictions = <<>> /\ now = StartTime
    /\ cachedCanvas = FALSE /\ cacheKey = <<>> /\ cacheTime = 0
    /\ cachedPoints = <<>>
    /\ cachedMinLevel = 0 /\ cachedMaxLevel = Metre * PadScale
    /\ cachedWindowStart = 0 /\ cachedWindowEnd = 0
    /\ cachedCurveTop = 0 /\ cachedCurveBottom = 0
    /\ lastOp = Op("none") /\ lastMove = NoMove
    /\ nInteractions = 0 /\ snapbackOwed = FALSE
    /\ lastDraw = NoDraw /\ invalidated = FALSE
    /\ builtFrom = NoBuild /\ predsSince = StartTime
    /\ beforeInvalidate = NoInvalidate
    /\ lastFrameRef = 0 /\ animTimeRef = 0 /\ animRequests = 1
    /\ frameClock = 0 /\ lastFrame = NoFrame
    /\ InitHook

Init ==
    /\ InitProgram
    /\ call = NoCall

ScrubNext ==
    \/ \E x \in DownXs, y \in DownYs : handlePointerDown(x, y)
    \/ \E x \in MoveXs, y \in MoveYs : handlePointerMove(x, y)
    \/ handlePointerUp
    \/ handlePointerLeave
    \/ \E dx \in WheelDeltas, dy \in WheelDeltasY : handleWheel(dx, dy)
    \/ \E t \in timers : TimerFire(t)
    \/ \E r \in rafs : RafStep(r)
    \/ Elapse
    \/ \E s \in ScrubSizes : Resize(s[1], s[2], s[3])
    \/ Teardown

SpecScrub == Init /\ [][ScrubNext]_vars

\* every callback that is still scheduled eventually runs, and time passes
SpecScrubLive ==
    /\ Init /\ [][ScrubNext]_vars
    /\ WF_vars(Elapse)
    /\ WF_vars(\E t \in timers : TimerFire(t))
    /\ WF_vars(\E r \in rafs : RafStep(r))

\* padPredictions(predictions, start, end) is called and returns
padCall ==
    /\ call.fn = "padPredictions" /\ ~call.done
    /\ call' = [call EXCEPT !.done = TRUE,
                            !.out = padPredictions(call.preds, call.start, call.end)]
    /\ UNCHANGED programVars

\* step(now) of a snapback is called and returns: the offset it leaves
stepCall ==
    /\ call.fn = "step" /\ ~call.done
    /\ call' = [call EXCEPT !.done = TRUE, !.out = stepOffset(call)]
    /\ UNCHANGED programVars

\* mapRange(value, inMin, inMax, outMin, outMax) is called and returns
mapRangeCall ==
    /\ call.fn = "mapRange" /\ ~call.done
    /\ call' = [call EXCEPT !.done = TRUE,
                            !.out = mapRange(call.value, call.inMin, call.inMax,
                                             call.outMin, call.outMax)]
    /\ UNCHANGED programVars

\* levelToY(l) is called and returns
levelToYCall ==
    /\ call.fn = "levelToY" /\ ~call.done
    /\ call' = [call EXCEPT !.done = TRUE,
                            !.out = levelToY(call.value, call.minLevel, call.maxLevel,
                                             call.curveTop, call.curveBottom)]
    /\ UNCHANGED programVars

\* interpolatePredictions(predictions, start, end) is called and returns
interpolateCall ==
    /\ call.fn = "interpolatePredictions" /\ ~call.done
    /\ call' = [call EXCEPT !.done = TRUE,
                            !.out = interpolatePredictions(call.preds, call.start,
                                                           call.end)]
    /\ UNCHANGED programVars

CacheNext ==
    \/ drawTideCurve
    \/ invalidateTideCurveCache
    \/ \E s \in CacheSizes : ResizeSurface(s[1], s[2], s[3])
    \/ \E b \in Blends : SetBlend(b)
    \/ \E p \in PredictionLists : SetPredictions(p)
    \/ Tick

SpecCache == Init /\ [][CacheNext]_vars

\* the animation loop renders while the wheel scrubs and predictions arrive
FrameNext ==
    \/ \E gap \in FrameGaps : animate(gap)
    \/ \E dx \in WheelDeltas, dy \in WheelDeltasY : handleWheel(dx, dy)
    \/ \E p \in PredictionLists : SetPredictions(p)
    \/ Teardown

SpecFrame == Init /\ [][FrameNext]_vars

\* the curve is drawn while the pointer and the wheel scrub and predictions
\* arrive
OwnerNext ==
    \/ drawTideCurve
    \/ \E x \in DownXs, y \in DownYs : handlePointerDown(x, y)
    \/ \E x \in MoveXs, y \in MoveYs : handlePointerMove(x, y)
    \/ handlePointerUp
    \/ \E dx \in WheelDeltas, dy \in WheelDeltasY : handleWheel(dx, dy)
    \/ \E p \in OwnerLists : SetPredictions(p)

SpecOwner == Init /\ [][OwnerNext]_vars

\* the data hook while the user switches stations and the fetches settle
\* in any order
DataNext ==
    \/ \E s \in Stations : selectStation(s)
    \/ \E f \in fetches, ok \in BOOLEAN : predictionsSettle(f, ok)
    \/ \E f \in fetches, ok \in BOOLEAN : nameSettle(f, ok)
    \/ \E f \in fetches, outcome \in {"readings", "empty", "error"} :
            readingsSettle(f, outcome)
    \/ intervalTick

SpecData == Init /\ [][DataNext]_vars

\* the pure functions, each called once with arguments of Calls, MapCalls,
\* LevelCalls or StepCalls
InitCall ==
    /\ InitProgram
    /\ call \in Calls \cup MapCalls \cup LevelCalls \cup StepCalls

CallNext ==
    \/ padCall
    \/ interpolateCall
    \/ mapRangeCall
    \/ levelToYCall
    \/ stepCall

SpecCall == InitCall /\ [][CallNext]_vars

\* the divisions of SnapbackValue leave no remainder
SnapbackExact == \A r \in rafs : r.startOffset % 2 = 0

TypeScrub ==
    /\ timeOffset \in Int /\ isDragging \in BOOLEAN
    /\ \A t \in timers : t.remaining \in 0..SNAPBACK_DELAY_MS
    /\ \A r \in rafs : r.elapsed \in 0..SNAPBACK_MS

-----------------------------------------------------------------------------
(* The time-scrub controller: properties *)

\* C1: between handlers the scrub offset always lies within [-6h, +6h],
\* that is |timeOffset| <= 21,600,000 ms, whatever events, timer firings
\* and animation steps have run.
C1_OffsetWithinSixHours ==
    /\ timeOffset >= -21600000
    /\ timeOffset <= 21600000

\* C1, its case: a drag whose unclamped value lies beyond +6h was clamped.
C1_Witness ==
    /\ lastOp.op = "pointermove-drag"
    /\ dragStartOffset - (lastMove.x - dragStartX) * PxToMs(width) > 21600000
    /\ timeOffset = 21600000

\* C2: once a drag has ended or a wheel event was handled, and no new
\* pointer-down in the band or wheel event follows, the offset eventually
\* becomes 0 and stays 0 (the component stays mounted, the drag is over,
\* every scheduled callback runs).
C2_SnapbackAlwaysHappens ==
    ([]mounted /\ <>[](snapbackOwed /\ ~isDragging)) => <>[](timeOffset = 0)

\* C3: after a pointer-down inside the band or a wheel event, no timer and
\* no animation step that was pending before that event is still pending:
\* none of them can run any more.
C3_NoStaleCallback ==
    /\ \A t \in timers : ~t.stale
    /\ \A r \in rafs : ~r.stale

\* C3, its case: a wheel event arrived while a snapback animation was in
\* flight, and the animation is gone.
C3_Witness ==
    /\ lastOp.op = "wheel"
    /\ lastOp.hadRaf
    /\ rafs = {}
    /\ Cardinality(timers) = 1

\* C4: the step that completes a snapback leaves the offset at exactly 0,
\* no further step scheduled, and the controller idle: not dragging, no
\* timer pending, no animation in flight.
C4_SnapbackEndsIdle ==
    lastOp.op = "step-done" =>
        /\ timeOffset = 0
        /\ rafs = {}
        /\ ~isDragging
        /\ timers = {}

\* C5 as stated: a pointer-move during a drag sets the offset to
\* clamp(dragAnchorOffset - (x - anchorX) * (24h / width), -6h, +6h); on a
\* 1000 px surface -100 px from offset 0 gives +2.4 h; and a move further
\* left than the previous move of the same drag never gives a smaller offset.
C5_DragMathAnyWidth ==
    [][lastOp'.op = "pointermove-drag" =>
        LET dx == lastMove'.x - dragStartX
            raw == dragStartOffset - dx * (86400000 \div width)
        IN  /\ timeOffset' = Max(-21600000, Min(21600000, raw))
            /\ (width = 1000 /\ dragStartOffset = 0 /\ dx = -100)
                   => timeOffset' = 8640000
            /\ (lastMove # NoMove /\ lastMove'.x <= lastMove.x)
                   => timeOffset' >= lastMove.offset]_vars

\* C5 as amended: the same, the last part for two moves made at the same
\* surface width.
C5_DragMath ==
    [][lastOp'.op = "pointermove-drag" =>
        LET dx == lastMove'.x - dragStartX
            raw == dragStartOffset - dx * (86400000 \div width)
        IN  /\ timeOffset' = Max(-21600000, Min(21600000, raw))
            /\ (width = 1000 /\ dragStartOffset = 0 /\ dx = -100)
                   => timeOffset' = 8640000
            /\ (lastMove # NoMove /\ lastMove'.x <= lastMove.x
                    /\ lastMove'.w = lastMove.w)
                   => timeOffset' >= lastMove.offset]_vars

\* C5, its case: the 1000 px example, a move of -100 px from a drag started
\* at offset 0.
C5_Witness ==
    /\ lastOp.op = "pointermove-drag"
    /\ width = 1000
    /\ dragStartOffset = 0
    /\ lastMove.x = dragStartX - 100
    /\ timeOffset = 8640000

\* C6: a wheel event handled while not dragging sets the offset to
\* clamp(offset + deltaX*pxToMs/2 [+ deltaY*pxToMs/2 when |deltaX| < |deltaY|])
\* with pxToMs = 24h / width, and leaves exactly one idle-delay timer
\* pending, due 2 s after this event.
C6_WheelMath ==
    [][(lastOp'.op = "wheel" /\ ~isDragging) =>
        LET p == 86400000 \div width
            dx == lastOp'.dx
            dy == lastOp'.dy
            raw == timeOffset + (dx * p) \div 2
                   + (IF Abs(dx) < Abs(dy) THEN (dy * p) \div 2 ELSE 0)
        IN  /\ timeOffset' = Max(-21600000, Min(21600000, raw))
            /\ Cardinality(timers') = 1
            /\ \A t \in timers' : t.remaining = 2000]_vars

\* C6, its case: a wheel event whose vertical part dominates, handled while
\* the timer of an earlier wheel event was still pending.
C6_Witness ==
    /\ lastOp.op = "wheel"
    /\ ~isDragging
    /\ Abs(lastOp.dx) < Abs(lastOp.dy)
    /\ lastOp.hadTimer
    /\ Cardinality(timers) = 1
    /\ timeOffset # 0

\* C7: after teardown no timer and no animation step is pending, so nothing
\* writes the offset again.
C7_TeardownCancels ==
    ~mounted => (timers = {} /\ rafs = {})

\* C7, its case: the component was torn down while the idle-delay timer
\* was pending.
C7_Witness ==
    /\ ~mounted
    /\ lastOp.op = "teardown"
    /\ lastOp.hadTimer
    /\ timeOffset # 0

-----------------------------------------------------------------------------
(* The static layer cache: properties *)

\* the last draw call got past the test of predictions.length
FullDraw == ~lastDraw.none /\ ~lastDraw.short

\* C8: a draw call with at least two predictions rebuilds the static layer
\* exactly when no cache entry exists, or the key of (width, height, dpr,
\* round(themeBlend * 20), prediction count, floor(now / 60000)) differs
\* from the stored key, or more than 30,000 ms have passed since the last
\* build.  So after a draw with at least two predictions, a draw with a
\* change in any of the six components rebuilds, and a draw with the same
\* six components, an entry and a build at most 30,000 ms old does not,
\* whether or not the theme blend moved within its twentieth.
C8_RebuildIffMissOrStale ==
    FullDraw =>
        /\ lastDraw.rebuilt <=>
               (~lastDraw.hadEntry \/ lastDraw.keyDiff \/ lastDraw.expired)
        /\ (lastDraw.prev = "full" /\ lastDraw.changed # {}) => lastDraw.rebuilt
        /\ (lastDraw.prev = "full" /\ lastDraw.changed = {}
               /\ lastDraw.hadEntry /\ ~lastDraw.expired) => ~lastDraw.rebuilt

\* the theme blend moved within its twentieth between two draws, and the
\* second draw reused the layer
C8_Witness ==
    /\ FullDraw
    /\ lastDraw.prev = "full" /\ lastDraw.changed = {}
    /\ lastDraw.blendMoved
    /\ ~lastDraw.rebuilt

\* C9 as stated: of two consecutive draw calls with the same width, height,
\* dpr, theme-blend twentieth, prediction count and minute, the second does
\* not rebuild.
C9_SameKeyNeverRebuilds ==
    (~lastDraw.none /\ lastDraw.prev # "none" /\ lastDraw.changed = {})
        => ~lastDraw.rebuilt

\* C9, amended: of two consecutive draw calls with the same width, height,
\* dpr, theme-blend twentieth, prediction count and minute, the second does
\* not rebuild, provided that, when it has at least two predictions, a
\* cache entry exists and its build is at most 30,000 ms old.
C9_SameKeyFreshEntryNoRebuild ==
    (~lastDraw.none /\ lastDraw.prev # "none" /\ lastDraw.changed = {}
        /\ (lastDraw.short \/ (lastDraw.hadEntry /\ ~lastDraw.expired)))
        => ~lastDraw.rebuilt

\* two draws with at least two predictions at different times of one
\* minute, the second reusing the layer the first built
C9_Witness ==
    /\ FullDraw
    /\ lastDraw.prev = "full" /\ lastDraw.changed = {}
    /\ lastDraw.hadEntry /\ ~lastDraw.expired
    /\ cacheTime # now
    /\ ~lastDraw.rebuilt

\* C10 as stated: the draw call that follows invalidateTideCurveCache()
\* rebuilds the static layer.
C10_NextDrawRebuilds ==
    (~lastDraw.none /\ lastDraw.afterInvalidate) => lastDraw.rebuilt

\* C10, amended: the first draw call with at least two predictions that
\* follows invalidateTideCurveCache() rebuilds the static layer, even if
\* the key is unchanged and the last build is at most 30,000 ms old.
C10_NextFullDrawRebuilds ==
    (FullDraw /\ lastDraw.afterInvalidate) => lastDraw.rebuilt

\* a draw after an invalidation, with the stored key and a build that has
\* not expired, rebuilt
C10_Witness ==
    /\ FullDraw /\ lastDraw.afterInvalidate
    /\ ~lastDraw.keyDiff /\ ~lastDraw.expired
    /\ lastDraw.rebuilt

\* the last draw call had at least two predictions and was the first such
\* call after invalidateTideCurveCache(), an entry existed when that ran,
\* and nothing has been invalidated since
RebuiltAfterInvalidate ==
    /\ FullDraw /\ lastDraw.afterInvalidate
    /\ beforeInvalidate.entry
    /\ ~invalidated

PrevBuildFailed ==
    /\ FullDraw /\ lastDraw.prev = "full"
    /\ ~lastDraw.hadEntry /\ ~lastDraw.afterInvalidate

\* C12: after a build that produced fewer than two points, the following
\* draw does not attempt the build again while the key components are
\* unchanged and at most 30,000 ms have passed since the failed attempt.
C12_NoRetryStorm ==
    (PrevBuildFailed /\ lastDraw.changed = {}
        /\ lastDraw.sinceFailed <= CACHE_TTL) => ~lastDraw.rebuilt

\* the last draw call had at least two predictions and an entry is there:
\* that call blitted the cached layer
Blitted == FullDraw /\ cachedCanvas /\ Len(cachedPoints) >= 2

\* the predictions have not been replaced since the last draw call
PredictionsKept == lastDraw.predsFrom = predsSince

\* C13: at every draw call that blits the cached layer, the layer was built
\* at most 30,000 ms before that call, its window is the 24 h around the
\* time of that build, and predictions that had been in place for more than
\* 30,000 ms at that call are the ones the points were built from, even
\* when they replaced a list of the same length within the same minute.
C13_BlittedLayerIsFresh ==
    Blitted =>
        /\ lastDraw.layerAge <= 30000
        /\ lastDraw.layerAge >= 0
        /\ cachedWindowStart = cacheTime - 12 * 3600 * 1000
        /\ cachedWindowEnd = cacheTime + 12 * 3600 * 1000
        /\ (lastDraw.settled /\ PredictionsKept)
               => builtFrom.predictions = predictions

\* a list of the same length replaced the predictions, the key stayed the
\* stored one, and a draw more than 30,000 ms later rebuilt from the new list
C13_Witness ==
    /\ Blitted /\ PredictionsKept
    /\ lastDraw.stalePreds /\ lastDraw.settled
    /\ lastDraw.hadEntry /\ ~lastDraw.keyDiff
    /\ lastDraw.rebuilt
    /\ builtFrom.predictions = predictions

-----------------------------------------------------------------------------
(* padPredictions: properties *)

\* padPredictions has returned from a call with at least two events
PadReturned ==
    call.fn = "padPredictions" /\ call.done /\ Len(call.preds) >= 2

FiniteTimes(events) == \A i \in 1..Len(events) : events[i].time # NaN

TimeAscending(events) ==
    /\ FiniteTimes(events)
    /\ \A i \in 1..(Len(events) - 1) : events[i].time <= events[i + 1].time

\* the places in the returned series where the input may sit
InputAt ==
    {k \in 0..(Len(call.out) - Len(call.preds)) :
        SubSeq(call.out, k + 1, k + Len(call.preds)) = call.preds}

\* the number of events in front of the input, and behind it
Prepended == CHOOSE k \in InputAt : \A j \in InputAt : k <= j
Appended == Len(call.out) - Len(call.preds) - Prepended

\* ceil(a / b), b > 0
CeilDiv(a, b) == -((-a) \div b)

\* C14: for a time-ascending input of at least two events and any window,
\* the first event of the padded series is at or before start, the last at
\* or after end, and the input sits in it unchanged and in order, with only
\* synthesized events in front of it and behind it.
C14_PaddedCoversWindow ==
    (PadReturned /\ TimeAscending(call.preds)) =>
        /\ call.out[1].time <= call.start
        /\ call.out[Len(call.out)].time >= call.end
        /\ InputAt # {}

\* a window that needed events in front and behind
C14_Witness ==
    /\ PadReturned /\ TimeAscending(call.preds)
    /\ Prepended > 0 /\ Appended > 0
    /\ call.out[1].time < call.start
    /\ call.out[Len(call.out)].time > call.end

\* how far the window reaches before the first input event, and beyond the
\* last one
FrontGap == call.preds[1].time - call.start
BackGap == call.end - call.preds[Len(call.preds)].time

FrontSynth == 1..Prepended
BackSynth == (Len(call.out) - Appended + 1)..Len(call.out)

Kinds == {"high", "low"}

\* C16: every synthesized event has the kind opposite to its neighbour on
\* the input's side, which was the first (last) event of the series when it
\* was added, and lies exactly 22,320,000 ms before (after) that neighbour;
\* so the synthesized events alternate high and low and are strictly
\* ordered in time.
C16_SynthesizedAlternate ==
    PadReturned =>
        /\ \A j \in FrontSynth :
              /\ call.out[j].type \in Kinds \ {call.out[j + 1].type}
              /\ call.out[j].time = call.out[j + 1].time - 22320000
        /\ \A m \in BackSynth :
              /\ call.out[m].type \in Kinds \ {call.out[m - 1].type}
              /\ call.out[m].time = call.out[m - 1].time + 22320000
        /\ \A j \in FrontSynth \cup BackSynth, k \in FrontSynth \cup BackSynth :
              (k = j + 1) => /\ call.out[j].type # call.out[k].type
                             /\ call.out[j].time < call.out[k].time

\* two events were synthesized on each side
C16_Witness ==
    /\ PadReturned
    /\ Prepended >= 2 /\ Appended >= 2
    /\ call.out[1].type = call.out[3].type
    /\ call.out[1].time = call.preds[1].time - 2 * 22320000

\* the positions, among lo..hi of the returned series, of the events of the
\* kind of the event at position at
SameKind(at, lo, hi) ==
    {i \in lo..hi : call.out[i].type = call.out[at].type}

\* C17: a prepended event has the level of the first event of its kind in
\* the series it was added to, an appended event the level of the last event
\* of its kind in the series it was added to, and either has the level of
\* its neighbour when that series holds no event of its kind.
C17_SynthesizedLevel ==
    PadReturned =>
        /\ \A j \in FrontSynth :
              LET same == SameKind(j, j + 1, Prepended + Len(call.preds))
              IN call.out[j].level =
                     IF same = {} THEN call.out[j + 1].level
                     ELSE call.out[CHOOSE i \in same : \A k \in same : i <= k].level
        /\ \A m \in BackSynth :
              LET same == SameKind(m, 1, m - 1)
              IN call.out[m].level =
                     IF same = {} THEN call.out[m - 1].level
                     ELSE call.out[CHOOSE i \in same : \A k \in same : i >= k].level

\* an appended event took its level from the last event of its kind, which
\* is not the level of the first event of that kind
C17_Witness ==
    /\ PadReturned /\ Appended >= 1
    /\ LET m == Len(call.out) - Appended + 1
           same == SameKind(m, 1, m - 1)
       IN /\ Cardinality(same) >= 2
          /\ \E i \in same : call.out[i].level # call.out[m].level

\* a synthesized event took its neighbour's level, no event of its kind
\* being in the series
C17_FallbackReached ==
    /\ PadReturned /\ Prepended >= 1
    /\ SameKind(Prepended, Prepended + 1, Prepended + Len(call.preds)) = {}
    /\ call.out[Prepended].level = call.preds[1].level

\* the prepends and appends a window asks for: one per half-cycle, or part
\* of one, that it reaches beyond the input
PrependsNeeded == Max(0, CeilDiv(FrontGap, 22320000))
AppendsNeeded == Max(0, CeilDiv(BackGap, 22320000))

\* C18: a call with at least two events with finite times returns after
\* ceil((first.time - start) / halfCycle) prepends and
\* ceil((end - last.time) / halfCycle) appends (none where the window does
\* not reach beyond the input), each of which moved the end of the series
\* by exactly one half-cycle.
C18_PaddingStops ==
    (PadReturned /\ FiniteTimes(call.preds)) =>
        /\ Prepended = PrependsNeeded
        /\ Appended = AppendsNeeded
        /\ call.out[1].time = call.preds[1].time - Prepended * 22320000
        /\ call.out[Len(call.out)].time
               = call.preds[Len(call.preds)].time + Appended * 22320000

\* a window 20 h before and 30 h after the input: the loops ran more than
\* once and stopped
C18_Witness ==
    /\ PadReturned /\ FiniteTimes(call.preds)
    /\ Prepended = PrependsNeeded /\ Prepended >= 3
    /\ Appended = AppendsNeeded /\ Appended >= 3

\* C19: for the predictions [high at t0 with 3.2 m, low at t0 + 6.2 h with
\* 0.1 m] and the window [t0 - 5 h, t0 + 12 h], padPredictions returns
\* exactly four events: a low at t0 - 6.2 h with 0.1 m, the two inputs, and
\* a high at t0 + 12.4 h with 3.2 m.
C19_Example ==
    (/\ call.fn = "padPredictions" /\ call.done
     /\ call.preds = <<Event("high", StartTime, 3200),
                       Event("low", StartTime + 22320000, 100)>>
     /\ call.start = StartTime - Hours(5)
     /\ call.end = StartTime + Hours(12)) =>
        call.out = <<Event("low", StartTime - 22320000, 100),
                     Event("high", StartTime, 3200),
                     Event("low", StartTime + 22320000, 100),
                     Event("high", StartTime + 2 * 22320000, 3200)>>

\* the call of the example has returned
C19_Witness ==
    /\ call.fn = "padPredictions" /\ call.done
    /\ call.preds = ListPair
    /\ <<call.start, call.end>> = <<StartTime - Hours(5), StartTime + Hours(12)>>
    /\ Len(call.out) = 4

InterpolateReturned == call.fn = "interpolatePredictions" /\ call.done

\* C20: for a time-ascending input and any window, the points
\* interpolatePredictions returns are strictly increasing in time, the
\* appended final point included.
C20_MonotonicTime ==
    (InterpolateReturned /\ TimeAscending(call.preds)) =>
        \A i \in 1..(Len(call.out) - 1) : call.out[i].time < call.out[i + 1].time

\* the returned points run across the boundary of two pairs (a sample one
\* step before the second input event, the next one on it) and end with
\* the final point, which is one step after the last sample
C20_Witness ==
    /\ InterpolateReturned /\ TimeAscending(call.preds)
    /\ Len(call.preds) >= 2 /\ Len(call.out) >= 3
    /\ \E i \in 2..(Len(call.out) - 1) :
          /\ call.out[i].time = call.preds[2].time
          /\ call.out[i - 1].time = call.preds[2].time - step
    /\ call.out[Len(call.out)].time = call.end
    /\ call.out[Len(call.out) - 1].time = call.end - step

\* C21: every point interpolatePredictions returns has a time in
\* [start, end]; in particular the first and the last point of a non-empty
\* result.
C21_PointsWithinWindow ==
    InterpolateReturned =>
        \A i \in 1..Len(call.out) :
            call.start <= call.out[i].time /\ call.out[i].time <= call.end

\* the input reaches beyond the window on both sides, and the points
\* returned run from start to end: samples were skipped on either side
C21_Witness ==
    /\ InterpolateReturned /\ TimeAscending(call.preds)
    /\ Len(call.preds) >= 2 /\ Len(call.out) >= 2
    /\ call.preds[1].time < call.start
    /\ call.preds[Len(call.preds)].time > call.end
    /\ call.out[1].time = call.start
    /\ call.out[Len(call.out)].time = call.end

\* the padded series the returned points were sampled from
PaddedOfCall == padPredictions(call.preds, call.start, call.end)

InWindow(t) == NumGe(t, call.start) /\ NumLe(t, call.end)

\* the returned points hold one at the time and with the level of the
\* padded event at position i
PointAtEvent(i) ==
    \E k \in 1..Len(call.out) :
        /\ call.out[k].time = PaddedOfCall[i].time
        /\ call.out[k].level = PaddedOfCall[i].level

\* the last returned point is the last padded event, when that event lies
\* in the window
EndsAtLastEvent ==
    LET last == PaddedOfCall[Len(PaddedOfCall)]
    IN InWindow(last.time) =>
           /\ Len(call.out) >= 1
           /\ call.out[Len(call.out)] = [time |-> last.time, level |-> last.level]

\* C22 as stated: for a time-ascending input, every pair of consecutive
\* padded events A, B with tA in the window has a point at tA with exactly
\* the level of A, and the last point is the last padded event when that
\* lies in the window.
C22_BoundaryExactEveryPair ==
    (InterpolateReturned /\ TimeAscending(call.preds) /\ Len(PaddedOfCall) >= 2) =>
        /\ \A i \in 1..(Len(PaddedOfCall) - 1) :
              InWindow(PaddedOfCall[i].time) => PointAtEvent(i)
        /\ EndsAtLastEvent

\* C22, amended: every pair of consecutive padded events A, B with tA < tB
\* and tA in the window has a point at tA with exactly the level of A, and
\* the last point is the last padded event when that lies in the window.
C22_BoundaryExact ==
    (InterpolateReturned /\ Len(PaddedOfCall) >= 2) =>
        /\ \A i \in 1..(Len(PaddedOfCall) - 1) :
              (/\ InWindow(PaddedOfCall[i].time)
               /\ NumLt(PaddedOfCall[i].time, PaddedOfCall[i + 1].time))
                  => PointAtEvent(i)
        /\ EndsAtLastEvent

\* three padded events lie in the window: the first two start a pair and
\* have their points, the third is the final point
C22_Witness ==
    /\ InterpolateReturned /\ TimeAscending(call.preds)
    /\ Len(PaddedOfCall) >= 3
    /\ Cardinality({i \in 1..Len(PaddedOfCall) : InWindow(PaddedOfCall[i].time)}) >= 3
    /\ \A i \in 1..(Len(PaddedOfCall) - 1) :
          InWindow(PaddedOfCall[i].time) => PointAtEvent(i)
    /\ InWindow(PaddedOfCall[Len(PaddedOfCall)].time)
    /\ call.out[Len(call.out)].level = PaddedOfCall[Len(PaddedOfCall)].level

\* the padded series of the call reaches from start or before to end or
\* beyond
PaddedCovers ==
    /\ Len(PaddedOfCall) >= 2
    /\ NumLe(PaddedOfCall[1].time, call.start)
    /\ NumGe(PaddedOfCall[Len(PaddedOfCall)].time, call.end)

\* C23: the points sampled from a padded series that covers the window are
\* at most 180,000 ms apart, the first is less than 180,000 ms after start
\* and the last less than 180,000 ms before end.
C23_NoGapBeyondStep ==
    (/\ InterpolateReturned /\ TimeAscending(call.preds)
     /\ PaddedCovers /\ Len(call.out) >= 1) =>
        /\ \A i \in 1..(Len(call.out) - 1) :
              call.out[i + 1].time - call.out[i].time <= 180000
        /\ call.out[1].time - call.start < 180000
        /\ call.end - call.out[Len(call.out)].time < 180000

\* an event of the input is not a whole number of steps after the one
\* before it: the points on either side of it are less than a step apart,
\* others are a step apart, and the last point lies before end
C23_Witness ==
    /\ InterpolateReturned /\ TimeAscending(call.preds)
    /\ PaddedCovers /\ Len(call.out) >= 3
    /\ \E i \in 1..(Len(call.out) - 1) :
          call.out[i + 1].time - call.out[i].time < 180000
    /\ \E i \in 1..(Len(call.out) - 1) :
          call.out[i + 1].time - call.out[i].time = 180000
    /\ call.out[Len(call.out)].time < call.end

\* C24: with fewer than two predictions padPredictions returns its input
\* and interpolatePredictions no point, for the window a build would use,
\* and a draw call neither builds nor changes any variable of the cache
\* (canvas, key, build time, points, level range, window, curve bounds).
C24_ShortInputIsNoOp ==
    /\ Len(predictions) < 2 =>
          LET windowStart == now - PAST_HOURS * 3600 * 1000
              windowEnd == now + FUTURE_HOURS * 3600 * 1000
          IN /\ padPredictions(predictions, windowStart, windowEnd) = predictions
             /\ interpolatePredictions(predictions, windowStart, windowEnd) = <<>>
    /\ (~lastDraw.none /\ lastDraw.short) =>
          /\ ~lastDraw.rebuilt
          /\ lastDraw.cacheKept

\* a draw call with a single prediction found an entry and left it
C24_Witness ==
    /\ ~lastDraw.none /\ lastDraw.short
    /\ Len(predictions) = 1
    /\ lastDraw.hadEntry /\ cachedCanvas
    /\ lastDraw.cacheKept

-----------------------------------------------------------------------------
(* The frame: properties *)

\* Date.now() of the last draw call, which left an entry
DrawNow == cacheTime + lastDraw.layerAge

\* the scrubbed time of the last draw call: the wall clock moved by the
\* offset carried in the frame's state
VirtualNow == DrawNow + lastDraw.offset

\* the level the last draw call put the live marker at
PaintedLevel ==
    curveLevel(cachedPoints, markerTime(DrawNow, lastDraw.offset), currentLevel)

\* the pairs of consecutive cached points around t
Bracketing(t) ==
    {i \in 1..(Len(cachedPoints) - 1) :
        cachedPoints[i].time <= t /\ t <= cachedPoints[i + 1].time}

\* C25: at every draw call that blits the layer, the marker's level is the
\* linear interpolation at virtual now between the first pair of cached
\* points around virtual now, and so lies between their levels; it is the
\* observed level when there is no such pair.
C25_MarkerLevelAtVirtualNow ==
    Blitted =>
        IF Bracketing(VirtualNow) = {} THEN PaintedLevel = currentLevel
        ELSE LET i == CHOOSE j \in Bracketing(VirtualNow) :
                          \A k \in Bracketing(VirtualNow) : j <= k
                 a == cachedPoints[i]
                 b == cachedPoints[i + 1]
             IN /\ PaintedLevel
                      = a.level + RoundDiv((b.level - a.level) * (VirtualNow - a.time),
                                           b.time - a.time)
                /\ Min(a.level, b.level) <= PaintedLevel
                /\ PaintedLevel <= Max(a.level, b.level)

\* C26: a draw call that builds the layer uses the window of 12 h on either
\* side of now + offset, for the offset carried in the frame's state, and
\* the marker is placed at now + offset.
C26_WindowFollowsOffset ==
    (FullDraw /\ lastDraw.rebuilt /\ cachedCanvas) =>
        /\ cachedWindowStart = VirtualNow - 12 * 3600 * 1000
        /\ cachedWindowEnd = VirtualNow + 12 * 3600 * 1000
        /\ markerTime(DrawNow, lastDraw.offset) = VirtualNow

\* C28: a frame is rendered only 1000/30 ms or more after the frame rendered
\* before it (after the first callback, when none was); a callback that
\* comes earlier renders nothing and leaves the cache alone; and after every
\* callback exactly one animation callback is requested, until the
\* component unmounts, after which none is.
C28_FrameRateCapped ==
    /\ lastFrame.rendered => lastFrame.since >= FRAME_INTERVAL
    /\ (lastFrame.n > 0 /\ lastFrame.since < FRAME_INTERVAL) =>
          ~lastFrame.rendered /\ lastFrame.untouched
    /\ lastFrame.n > 0 => lastFrame.requests = 1
    /\ animRequests = (IF mounted THEN 1 ELSE 0)

\* four callbacks: the first starts the clock, the second renders, the third
\* comes half an interval later and is skipped, the fourth renders exactly
\* one interval after the second
C28_Witness ==
    /\ lastFrame.n = 4
    /\ lastFrame.rendered /\ lastFrame.hadRendered
    /\ lastFrame.since = FRAME_INTERVAL
    /\ lastFrame.ts - lastFrame.first = 2 * FRAME_INTERVAL
    /\ lastFrame.requests = 1

-----------------------------------------------------------------------------
(* mapRange: properties *)

\* C27: for every value, below, in or above [inMin, inMax], mapRange
\* returns a number in [outMin, outMax], so that timeToX lies in [0, width],
\* and levelToY lies in [curveTop, curveBottom]; values at or beyond an end
\* of the range map to that end.
C27_MappingClamps ==
    /\ (call.fn = "mapRange" /\ call.done) =>
          /\ call.outMin <= call.out /\ call.out <= call.outMax
          /\ call.value <= call.inMin => call.out = call.outMin
          /\ call.value >= call.inMax => call.out = call.outMax
    /\ (call.fn = "levelToY" /\ call.done) =>
          /\ call.curveTop <= call.out /\ call.out <= call.curveBottom
          /\ call.value * PadScale <= call.minLevel => call.out = call.curveBottom
          /\ call.value * PadScale >= call.maxLevel => call.out = call.curveTop

\* a time three windows after the end of the window was mapped to the right
\* edge of the surface
C27_Witness ==
    /\ call.fn = "mapRange" /\ call.done
    /\ call.value > call.inMax + (call.inMax - call.inMin)
    /\ call.inMax - call.inMin = 24 * 3600 * 1000
    /\ call.out = call.outMax /\ call.outMax = 1000

-----------------------------------------------------------------------------
(* The snapback step: properties *)

StepReturned == call.fn = "step" /\ call.done

\* C29: a step that runs 600 ms after the snapback began, half of its
\* 1200 ms, leaves exactly half of the captured starting offset (1 h
\* when it began at 2 h); and whenever a step runs, the offset it leaves is
\* no larger in magnitude than the starting offset and not of the opposite
\* sign.
C29_SnapbackTrajectory ==
    StepReturned =>
        /\ 2 * call.elapsed = SNAPBACK_MS => 2 * call.out = call.startOffset
        /\ Abs(call.out) <= Abs(call.startOffset)
        /\ call.startOffset > 0 => call.out >= 0
        /\ call.startOffset < 0 => call.out <= 0

\* the step at the midpoint of a snapback from 2 h left 1 h
C29_Witness ==
    /\ StepReturned
    /\ call.startOffset = 2 * 3600 * 1000 /\ call.elapsed = 600
    /\ call.out = 3600 * 1000

-----------------------------------------------------------------------------
(* Pointer-down: properties *)

PointerDownRan == lastOp'.op \in {"pointerdown", "pointerdown-outside"}

\* C30: a pointer-down starts a drag exactly when its clientY is at or
\* below the top of the curve band, clientY >= height * 0.85.  When it
\* does, dragging is true afterwards, the anchor x is the event's clientX,
\* the anchor offset is the offset at the time, and the offset is as it
\* was; when it does not, the offset, the dragging flag, both anchors, the
\* pending snapback timer and the pending animation steps are as they were.
C30_PointerDownStartsDrag ==
    [][PointerDownRan =>
        LET x == lastOp'.dx
            y == lastOp'.dy
            inside == y * 100 >= height * (100 - CURVE_HEIGHT_FRACTION)
        IN  /\ (lastOp'.op = "pointerdown") <=> inside
            /\ inside => /\ isDragging' /\ dragStartX' = x
                         /\ dragStartOffset' = timeOffset
                         /\ timeOffset' = timeOffset
            /\ ~inside => UNCHANGED <<timeOffset, isDragging, dragStartX,
                                      dragStartOffset, timers, rafs>>]_vars

\* a pointer-down on the top edge of the band of a surface 600 high began a
\* drag while the offset was not zero
C30_Witness ==
    /\ lastOp.op = "pointerdown"
    /\ height = 600 /\ lastOp.dy = 510 /\ dragStartX = lastOp.dx
    /\ isDragging /\ timeOffset # 0 /\ dragStartOffset = timeOffset

-----------------------------------------------------------------------------
(* The cache's single writer: properties *)

\* C31: a draw call that does not rebuild leaves the cached canvas, key,
\* build time, points, level range, window and curve bounds as they were,
\* and no pointer or wheel handler writes any variable of the cache.
C31_OnlyRebuildWrites ==
    [][/\ (lastDraw' # lastDraw /\ ~lastDraw'.rebuilt) => UNCHANGED cacheVars
       /\ (scrubVars' # scrubVars \/ lastOp' # lastOp) => UNCHANGED cacheVars]_vars

\* a draw call found a fresh entry under the same key and blitted it, after
\* a drag had moved the offset while the entry was there
C31_Witness ==
    /\ ~lastDraw.none /\ ~lastDraw.short /\ ~lastDraw.rebuilt
    /\ lastDraw.hadEntry /\ lastDraw.cacheKept /\ cachedCanvas
    /\ lastOp.op = "pointermove-drag" /\ timeOffset # 0
    /\ builtFrom.predictions = predictions

-----------------------------------------------------------------------------
(* The cache entry: properties *)

\* the curve of the build that builtFrom records
BuiltCurve == curves[builtFrom.predictions, builtFrom.now]

\* C32: whenever a cached canvas is present, the stored key, build time,
\* points, level range, window and curve bounds are those of one build, the
\* last one that succeeded: the points are its interpolated points, at
\* least two, the level range its padded range, the window the 24 hours
\* around its wall clock, the bounds those of its surface height, and the
\* key the one of its prediction count, height and minute.  A build that
\* fails leaves no canvas.
C32_EntryIsOneBuild ==
    /\ cachedCanvas =>
          /\ builtFrom # NoBuild
          /\ cacheTime = builtFrom.now
          /\ cachedPoints = BuiltCurve.allPoints /\ Len(cachedPoints) >= 2
          /\ cachedMinLevel = BuiltCurve.minLevel
          /\ cachedMaxLevel = BuiltCurve.maxLevel
          /\ cachedWindowStart = builtFrom.now - Hours(12)
          /\ cachedWindowEnd = builtFrom.now + Hours(12)
          /\ cachedWindowEnd - cachedWindowStart = Hours(24)
          /\ cachedCurveTop = CurveTop(builtFrom.height)
          /\ cachedCurveBottom = builtFrom.height - 20
          /\ cacheKey[2] = builtFrom.height
          /\ cacheKey[5] = Len(builtFrom.predictions)
          /\ cacheKey[6] = builtFrom.now \div 60000
    /\ (FullDraw /\ lastDraw.rebuilt /\ lastDraw.failedAt # 0) => ~cachedCanvas

\* an entry built from one list of predictions at one time is present
\* after a later build, from other predictions, replaced an earlier entry
C32_Witness ==
    /\ cachedCanvas /\ FullDraw /\ lastDraw.rebuilt /\ lastDraw.hadEntry
    /\ lastDraw.stalePreds
    /\ builtFrom.predictions = PredsC /\ builtFrom.now > StartTime
    /\ cachedPoints = curves[PredsC, builtFrom.now].allPoints

-----------------------------------------------------------------------------
(* The level range: properties *)

\* the last draw call built the entry that is present
JustBuilt == FullDraw /\ lastDraw.rebuilt /\ cachedCanvas

\* the least and the greatest level among the cached points, in
\* PadScale-ths of a millimetre
LowestPoint == seqMin(cachedPoints, 1, Len(cachedPoints)) * PadScale
HighestPoint == seqMax(cachedPoints, 1, Len(cachedPoints)) * PadScale

\* C33: after a successful build the stored level range strictly contains
\* the curve, cachedMinLevel < min level <= max level < cachedMaxLevel, with
\* a margin on each side of 15 % of (max - min), or of 0.5 m when max =
\* min; and cachedMinLevel < cachedMaxLevel in every state, so that the
\* level mapping never divides by zero.
C33_RangeContainsCurve ==
    /\ cachedMinLevel < cachedMaxLevel
    /\ JustBuilt =>
          \A lo \in {LowestPoint}, hi \in {HighestPoint} :
              LET margin == IF hi = lo THEN (Metre \div 2) * PadScale
                            ELSE (15 * (hi - lo)) \div 100
              IN  /\ \A i \in 1..Len(cachedPoints) :
                        /\ lo <= cachedPoints[i].level * PadScale
                        /\ cachedPoints[i].level * PadScale <= hi
                  /\ cachedMinLevel < lo /\ lo <= hi /\ hi < cachedMaxLevel
                  /\ lo - cachedMinLevel = margin
                  /\ cachedMaxLevel - hi = margin

\* an entry was built from a tide that does not move: the range is 0.5 m
\* to either side of its one level
C33_Witness ==
    /\ JustBuilt
    /\ LowestPoint = HighestPoint
    /\ cachedMinLevel = LowestPoint - 500 * PadScale
    /\ cachedMaxLevel = HighestPoint + 500 * PadScale

-----------------------------------------------------------------------------
(* The data hook: properties *)

ReadingsInFlight == {f \in fetches : f.kind = "readings"}

\* C34: a load is started only after the predictions fetch of the selected
\* station has settled, and never with the predictions of another station:
\* every load in flight for the selected station was started after that
\* fetch settled and closes over no other station's predictions, and a
\* published TideData pairs readings with the predictions of the same
\* station, or with none.
C34_LoadAfterOwnPredictions ==
    /\ \A f \in ReadingsInFlight :
          f.station = station =>
              /\ f.afterSettle
              /\ f.predictions \in {NoPredictions, f.station}
    /\ data # NoData => data.predictions \in {NoPredictions, data.readings}

\* C35: a response of a fetch issued for a station other than the selected
\* one leaves data, error, loading, predictions, predictionsReady and
\* stationName as they were, whatever the order the fetches in flight
\* settle in.
C35_StaleResponsesDiscarded ==
    [][\A f \in fetches \ fetches' :
          f.station # station => UNCHANGED hookState]_vars

\* readings fetched for a station that is no longer selected arrived, with
\* readings, and were dropped while the hook was still loading
C35_Witness ==
    /\ lastSettle # NoSettle
    /\ lastSettle.kind = "readings" /\ lastSettle.stale
    /\ lastSettle.kept
    /\ loading /\ data = NoData

\* C36: while a drag is in progress no idle-delay snapback timer is pending
\* and no snapback animation is in flight, whatever the order of pointer,
\* wheel, timer and animation events, and a step that changes the offset
\* during a drag is a pointer-move.
C36_DragExcludesSnapback ==
    [][/\ isDragging' => (timers' = {} /\ rafs' = {})
       /\ (isDragging /\ isDragging' /\ timeOffset' # timeOffset)
              => lastOp'.op = "pointermove-drag"]_vars

\* C37: at most one idle-delay timer is pending and at most one snapback
\* animation step is requested, each the one its ref cell names; a
\* scheduleSnapback leaves exactly the timer it set, with the full delay to
\* run, and a startSnapback leaves at most the animation it started, at
\* elapsed time 0 from the offset it found.
C37_OneTimerOneAnimation ==
    /\ Cardinality(timers) <= 1
    /\ Cardinality(rafs) <= 1
    /\ \A t \in timers : t.ref
    /\ \A r \in rafs : r.ref
    /\ lastOp.op \in {"wheel", "pointerup", "pointerleave"} =>
          timers = {[remaining |-> SNAPBACK_DELAY_MS, ref |-> TRUE,
                     stale |-> FALSE]}
    /\ lastOp.op = "snapback-start" =>
          rafs = {[startOffset |-> timeOffset, elapsed |-> 0, ref |-> TRUE,
                   stale |-> FALSE]}
    /\ lastOp.op = "snapback-zero" => rafs = {}

\* a drag ended while a timer was pending and an animation was in flight:
\* one timer, with the full delay, and that animation are left
C37_Witness ==
    /\ lastOp.op = "pointerup"
    /\ Cardinality(timers) = 1
    /\ \A t \in timers : t.remaining = SNAPBACK_DELAY_MS
    /\ Cardinality(rafs) = 1
    /\ \A r \in rafs : r.elapsed > 0

\* C38: a draw with at least two predictions whose times are finite and
\* ascending never fails to build: at the time of the draw the padded
\* series is ascending, begins at or before now - 12 h and ends at or after
\* now + 12 h, the interpolator yields at least two points, and the draw
\* leaves the cache present with at least two points, so it does not take
\* the branch that marks the cache absent.
C38_BuildNeverFails ==
    [][(lastDraw' # lastDraw /\ Len(predictions) >= 2
            /\ TimeAscending(predictions)) =>
          LET windowStart == now - PAST_HOURS * 3600 * 1000
              windowEnd == now + FUTURE_HOURS * 3600 * 1000
              padded == padPredictions(predictions, windowStart, windowEnd)
          IN  /\ TimeAscending(padded)
              /\ padded[1].time <= windowStart
              /\ padded[Len(padded)].time >= windowEnd
              /\ Len(curves[predictions, now].allPoints) >= 2
              /\ cachedCanvas'
              /\ Len(cachedPoints') >= 2
              /\ lastDraw'.failedAt = 0]_vars

\* a draw built the layer, after the clock had moved, from three ascending
\* predictions that reach neither end of the window, where the draw before
\* it had failed to build; the points span the window
C38_Witness ==
    /\ FullDraw /\ lastDraw.rebuilt /\ cachedCanvas
    /\ lastDraw.sinceFailed > 0
    /\ predictions = PredsC /\ TimeAscending(predictions)
    /\ builtFrom.predictions = predictions /\ builtFrom.now = now
    /\ now > StartTime
    /\ predictions[1].time > now - Hours(12)
    /\ predictions[Len(predictions)].time < now + Hours(12)
    /\ Len(cachedPoints) >= 480
    /\ cachedPoints[Len(cachedPoints)].time - cachedPoints[1].time
           >= Hours(24) - step

=============================================================================
